---- MODULE Spec2Model ----
(***************************************************************************)
(* A model of the marketplace retrieval engine of memory-market:           *)
(*   - LocalVectorStore (context/vector-store.ts): an insertion-ordered    *)
(*     Map of entries with a fixed dimensionality, brute-force cosine      *)
(*     query and JSON persistence;                                         *)
(*   - MarketplaceRegistry (marketplace/registry.ts): the packages table;  *)
(*   - MarketplaceSearch (marketplace/search.ts): keyword search, semantic *)
(*     search and the weighted fusion of the two.                          *)
(*                                                                         *)
(* Numbers.  Embedding components are integers.  Every vector of the model *)
(* has a squared norm that is a perfect square, so the square roots, the   *)
(* quotient of cosineSimilarity and the weighted sums of combineResults    *)
(* are exact; a score s of the program is held as the integer s * One.     *)
(* Metadata is a set of <<key, value>> pairs with JSON-representable       *)
(* values.                                                                 *)
(***************************************************************************)
EXTENDS Integers, Sequences, FiniteSets, TLC

VARIABLES
    store,      \* the LocalVectorStore under test: [entries, dimensions]
    file,       \* the JSON file written by save: <<>> (none) or <<[entries, dimensions]>>
    saved,      \* history: <<the store as it was when save last ran>>
    live,       \* history: ids added and not since deleted or cleared
    lastAdd,    \* history: id -> <<embedding, metadata>> of its latest successful add
    lastOp,     \* the last LocalVectorStore call and its arguments
    lastRes,    \* what that call returned or threw
    packages,   \* the packages table: its rows in rowid order
    transactions, \* the transactions table: its rows in id order
    now,        \* the clock behind datetime('now'), in seconds
    tieBreak,   \* how the database orders rows that ORDER BY leaves tied
    embedder,   \* MarketplaceSearch.embedder is set
    summaryStore, \* MarketplaceSearch.summaryStore: <<>> (null) or <<store>>
    lastCall,   \* the last registry or search-engine call and its arguments
    lastOut,    \* what that call returned or threw
    procs,      \* the processes running indexPackageSummary, each with its own engine
    agent,      \* the AutonomousAgent, its task in progress and its memory file
    bounties    \* the bounties table: its rows in rowid order

\* file is the summary index file when a MarketplaceSearch is the one saving.
vsVars == <<store, file, saved, live, lastAdd, lastOp, lastRes>>
vsOnly == <<store, saved, live, lastAdd, lastOp, lastRes>>
regVars == <<packages, transactions, now, tieBreak>>
mktVars == <<packages, transactions, now, tieBreak, embedder, summaryStore,
             lastCall, lastOut, procs, agent, bounties>>
vars == <<store, file, saved, live, lastAdd, lastOp, lastRes, packages,
          transactions, now, tieBreak, embedder, summaryStore, lastCall, lastOut,
          procs, agent, bounties>>

Null == "null"

\* The unit of a score: the program's 1.0.
One == 1000

Min(a, b) == IF a <= b THEN a ELSE b

(***************************************************************************)
(* Input domains.                                                          *)
(***************************************************************************)
Ids == {"a", "b", "c"}
SmallIds == {"a", "b"}

\* Vectors of length 1, 2 and 3; squared norms 0, 1 and 25.
Vecs == {<<1>>, <<1, 0>>, <<0, 0>>, <<3, 4>>}
QueryVecs == {<<1>>, <<1, 0>>, <<0, 0>>, <<-1, 0>>}
SmallVecs == {<<1>>, <<1, 0>>, <<0, 0>>}
BatchVecs == {<<1, 0>>, <<1, 0, 0>>}
Dimensions == {1, 2}

EmptyMeta == {}
Metas == {EmptyMeta, {<<"label", "x">>}}

\* Bounds of the model.
MaxTopK == 2
MaxBatch == 2

(***************************************************************************)
(* The JavaScript Map behind LocalVectorStore.entries, as the sequence of  *)
(* its values in insertion order.                                          *)
(***************************************************************************)
MapHas(es, id) == \E i \in 1..Len(es) : es[i].id = id

\* <<the entry>>, or <<>> for undefined.
MapGet(es, id) ==
    IF MapHas(es, id)
    THEN <<es[CHOOSE i \in 1..Len(es) : es[i].id = id]>>
    ELSE <<>>

\* Map.prototype.set: an existing key keeps its place, a new key goes last.
MapSetAppend(es, e) == Append(es, e)

MapSet(es, e) ==
    IF MapHas(es, e.id)
    THEN [i \in 1..Len(es) |-> IF es[i].id = e.id THEN e ELSE es[i]]
    ELSE Append(es, e)

MapDelete(es, id) == SelectSeq(es, LAMBDA x : x.id # id)

NewStore(d) == [entries |-> <<>>, dimensions |-> d]

(***************************************************************************)
(* cosineSimilarity                                                        *)
(***************************************************************************)
RECURSIVE SumProd(_, _, _)
SumProd(a, b, n) ==
    IF n = 0 THEN 0 ELSE SumProd(a, b, n - 1) + a[n] * b[n]

\* Math.sqrt, exact on the squared norms of the model's vectors.
Sqrt(n) == CHOOSE r \in 0..n : r * r = n

cosineSimilarityNoGuard(a, b) ==
    IF Len(a) # Len(b)
    THEN [ok |-> FALSE, val |-> 0]
    ELSE LET dotProduct == SumProd(a, b, Len(a))
             denominator == Sqrt(SumProd(a, a, Len(a))) * Sqrt(SumProd(b, b, Len(b)))
         IN  IF denominator = 0
             THEN [ok |-> FALSE, val |-> 0]
             ELSE [ok |-> TRUE, val |-> (dotProduct * One) \div denominator]

\* [ok |-> FALSE] is the thrown "Vector length mismatch".
cosineSimilarity(a, b) ==
    IF Len(a) # Len(b)
    THEN [ok |-> FALSE, val |-> 0]
    ELSE LET dotProduct == SumProd(a, b, Len(a))
             normA == SumProd(a, a, Len(a))
             normB == SumProd(b, b, Len(b))
             denominator == Sqrt(normA) * Sqrt(normB)
         IN  IF denominator = 0
             THEN [ok |-> TRUE, val |-> 0]
             ELSE [ok |-> TRUE, val |-> (dotProduct * One) \div denominator]

(***************************************************************************)
(* LocalVectorStore                                                        *)
(***************************************************************************)
Ok(s) == [ok |-> TRUE, err |-> Null, store |-> s]
Throw(e, s) == [ok |-> FALSE, err |-> e, store |-> s]

addNoCheck(s, id, embedding, metadata) ==
    Ok([s EXCEPT !.entries =
            MapSet(@, [id |-> id, embedding |-> embedding, metadata |-> metadata])])

addAppend(s, id, embedding, metadata) ==
    IF Len(embedding) # s.dimensions
    THEN Throw("DimensionMismatch", s)
    ELSE Ok([s EXCEPT !.entries =
            MapSetAppend(@, [id |-> id, embedding |-> embedding, metadata |-> metadata])])

add(s, id, embedding, metadata) ==
    IF Len(embedding) # s.dimensions
    THEN Throw("DimensionMismatch", s)
    ELSE Ok([s EXCEPT !.entries =
            MapSet(@, [id |-> id, embedding |-> embedding, metadata |-> metadata])])

\* for (const item of items) this.add(...): the first throw ends the loop.
RECURSIVE addBatchSkipBad(_, _)
addBatchSkipBad(s, items) ==
    IF items = <<>>
    THEN Ok(s)
    ELSE LET r == add(s, Head(items).id, Head(items).embedding, Head(items).metadata)
             rest == addBatchSkipBad(r.store, Tail(items))
         IN  IF r.ok THEN rest ELSE Throw(r.err, rest.store)

RECURSIVE addBatch(_, _)
addBatch(s, items) ==
    IF items = <<>>
    THEN Ok(s)
    ELSE LET r == add(s, Head(items).id, Head(items).embedding, Head(items).metadata)
         IN  IF r.ok THEN addBatch(r.store, Tail(items)) ELSE r

size(s) == Len(s.entries)
has(s, id) == MapHas(s.entries, id)
get(s, id) == MapGet(s.entries, id)
delete(s, id) == [s EXCEPT !.entries = MapDelete(@, id)]
clear(s) == [s EXCEPT !.entries = <<>>]

\* scored.sort((a, b) => b.score - a.score): a stable sort, descending.
RECURSIVE InsertDesc(_, _)
InsertDesc(sorted, x) ==
    IF sorted = <<>>
    THEN <<x>>
    ELSE IF Head(sorted).score >= x.score
         THEN <<Head(sorted)>> \o InsertDesc(Tail(sorted), x)
         ELSE <<x>> \o sorted

RECURSIVE SortDesc(_)
SortDesc(s) ==
    IF s = <<>>
    THEN <<>>
    ELSE InsertDesc(SortDesc(SubSeq(s, 1, Len(s) - 1)), s[Len(s)])

\* Array.prototype.slice(0, k) for k >= 0.
Slice(s, k) == SubSeq(s, 1, Min(k, Len(s)))

QueryOk(out) == [ok |-> TRUE, err |-> Null, out |-> out]
QueryThrow(e) == [ok |-> FALSE, err |-> e, out |-> <<>>]

Scored(s, embedding) ==
    [i \in 1..Len(s.entries) |->
        [id |-> s.entries[i].id,
         score |-> cosineSimilarity(embedding, s.entries[i].embedding).val,
         metadata |-> s.entries[i].metadata]]

queryNoCheck(s, embedding, topK) ==
    IF \E i \in 1..Len(s.entries) :
           ~cosineSimilarity(embedding, s.entries[i].embedding).ok
    THEN QueryThrow("LengthMismatch")
    ELSE QueryOk(Slice(SortDesc(Scored(s, embedding)), topK))

queryNoSort(s, embedding, topK) ==
    IF Len(embedding) # s.dimensions
    THEN QueryThrow("DimensionMismatch")
    ELSE QueryOk(Slice(Scored(s, embedding), topK))

query(s, embedding, topK) ==
    IF Len(embedding) # s.dimensions
    THEN QueryThrow("DimensionMismatch")
    ELSE IF \E i \in 1..Len(s.entries) :
                ~cosineSimilarity(embedding, s.entries[i].embedding).ok
         THEN QueryThrow("LengthMismatch")
         ELSE QueryOk(Slice(SortDesc(Scored(s, embedding)), topK))

\* JSON.stringify({entries: Array.from(this.entries.values()), dimensions}).
save(s) == [entries |-> s.entries, dimensions |-> s.dimensions]

\* new LocalVectorStore(data.dimensions), then entries.set(entry.id, entry) in turn.
RECURSIVE SetAll(_, _)
SetAll(es, data) ==
    IF data = <<>> THEN es ELSE SetAll(MapSet(es, Head(data)), Tail(data))

loadKeepDimensions(s, data) ==
    [entries |-> SetAll(<<>>, data.entries), dimensions |-> s.dimensions]

loadReversed(s, data) ==
    [entries |-> SetAll(<<>>, [i \in 1..Len(data.entries) |->
                                  data.entries[Len(data.entries) + 1 - i]]),
     dimensions |-> data.dimensions]

\* s is the store the caller held before; load is static and does not read it.
load(s, data) ==
    [entries |-> SetAll(<<>>, data.entries), dimensions |-> data.dimensions]

(***************************************************************************)
(* The calls on one LocalVectorStore, as actions.                          *)
(***************************************************************************)
Op(name) ==
    [op |-> name, id |-> Null, vec |-> <<>>, meta |-> EmptyMeta, topK |-> 0]

\* out: the list a query returned; val: <<the value another call returned>>.
Res(ok, err) == [ok |-> ok, err |-> err, out |-> <<>>, val |-> <<>>]

NoAdds == [i \in Ids |-> <<>>]

\* History of a run of successful adds: the items before the first one that throws.
RECURSIVE Applied(_, _)
Applied(items, d) ==
    IF items = <<>> \/ Len(Head(items).embedding) # d
    THEN <<>>
    ELSE <<Head(items)>> \o Applied(Tail(items), d)

RECURSIVE NoteAdds(_, _)
NoteAdds(la, items) ==
    IF items = <<>>
    THEN la
    ELSE NoteAdds([la EXCEPT ![Head(items).id] =
                       <<Head(items).embedding, Head(items).metadata>>],
                  Tail(items))

IdsOf(items) == {items[i].id : i \in 1..Len(items)}

VSInit ==
    /\ store \in {NewStore(d) : d \in Dimensions}
    /\ file = <<>>
    /\ saved = <<>>
    /\ live = {}
    /\ lastAdd = NoAdds
    /\ lastOp = Op("construct")
    /\ lastRes = Res(TRUE, Null)

Construct(d) ==
    /\ store' = NewStore(d)
    /\ live' = {}
    /\ lastAdd' = NoAdds
    /\ lastOp' = Op("construct")
    /\ lastRes' = Res(TRUE, Null)
    /\ UNCHANGED <<file, saved, mktVars>>

Add(id, embedding, metadata) ==
    LET r == add(store, id, embedding, metadata)
    IN  /\ store' = r.store
        /\ live' = IF r.ok THEN live \cup {id} ELSE live
        /\ lastAdd' = IF r.ok
                      THEN [lastAdd EXCEPT ![id] = <<embedding, metadata>>]
                      ELSE lastAdd
        /\ lastOp' = [Op("add") EXCEPT !.id = id, !.vec = embedding, !.meta = metadata]
        /\ lastRes' = Res(r.ok, r.err)
        /\ UNCHANGED <<file, saved, mktVars>>

AddBatch(items) ==
    LET r == addBatch(store, items)
        done == Applied(items, store.dimensions)
    IN  /\ store' = r.store
        /\ live' = live \cup IdsOf(done)
        /\ lastAdd' = NoteAdds(lastAdd, done)
        /\ lastOp' = Op("addBatch")
        /\ lastRes' = Res(r.ok, r.err)
        /\ UNCHANGED <<file, saved, mktVars>>

Query(embedding, topK) ==
    LET r == query(store, embedding, topK)
    IN  /\ lastOp' = [Op("query") EXCEPT !.vec = embedding, !.topK = topK]
        /\ lastRes' = [Res(r.ok, r.err) EXCEPT !.out = r.out]
        /\ UNCHANGED <<store, file, saved, live, lastAdd, mktVars>>

Delete(id) ==
    /\ store' = delete(store, id)
    /\ live' = live \ {id}
    /\ lastAdd' = [lastAdd EXCEPT ![id] = <<>>]
    /\ lastOp' = [Op("delete") EXCEPT !.id = id]
    /\ lastRes' = [Res(TRUE, Null) EXCEPT !.val = <<has(store, id)>>]
    /\ UNCHANGED <<file, saved, mktVars>>

Clear ==
    /\ store' = clear(store)
    /\ live' = {}
    /\ lastAdd' = NoAdds
    /\ lastOp' = Op("clear")
    /\ lastRes' = Res(TRUE, Null)
    /\ UNCHANGED <<file, saved, mktVars>>

Save ==
    /\ file' = <<save(store)>>
    /\ saved' = <<store>>
    /\ lastOp' = Op("save")
    /\ lastRes' = Res(TRUE, Null)
    /\ UNCHANGED <<store, live, lastAdd, mktVars>>

\* readFileSync throws when the file does not exist.
Load ==
    /\ lastOp' = Op("load")
    /\ IF file = <<>>
       THEN /\ lastRes' = Res(FALSE, "ENOENT")
            /\ UNCHANGED <<store, live, lastAdd>>
       ELSE /\ store' = load(store, file[1])
            /\ live' = IdsOf(file[1].entries)
            /\ lastAdd' = NoteAdds(NoAdds, file[1].entries)
            /\ lastRes' = Res(TRUE, Null)
    /\ UNCHANGED <<file, saved, mktVars>>

Item(id, embedding) == [id |-> id, embedding |-> embedding, metadata |-> EmptyMeta]
BatchItems == {Item(id, v) : id \in SmallIds, v \in BatchVecs}

RECURSIVE SeqsUpTo(_, _)
SeqsUpTo(S, n) ==
    IF n = 0
    THEN {<<>>}
    ELSE SeqsUpTo(S, n - 1)
         \cup {Append(s, x) : s \in {t \in SeqsUpTo(S, n - 1) : Len(t) = n - 1}, x \in S}

Batches == SeqsUpTo(BatchItems, MaxBatch)

\* The processes that run indexPackageSummary side by side.
ProcIds == {1, 2}

\* A process that has not started.  pc is where it stands: "idle",
\* "embedding" (awaiting embedOne) or "done".  summaryStore is its engine's
\* index.  History: loaded is the index file as it was when the process read
\* it, early says that no process had saved when it did, wrote is the rank of
\* its save among the saves (0: none), embedded is what embedOne gave it.
NoProc ==
    [pc |-> "idle", packageId |-> 0, summaryStore |-> <<>>, loaded |-> <<>>,
     early |-> FALSE, embedded |-> <<>>, ok |-> FALSE, wrote |-> 0]

NoProcs == [p \in ProcIds |-> NoProc]

\* What the last tool call of the agent did.  paid: "ok", "failed", or "none"
\* when no payment was attempted.
NoTool ==
    [tool |-> Null, packageId |-> 0, success |-> TRUE, why |-> Null,
     paid |-> "none", txHash |-> <<>>]

\* No AutonomousAgent yet.  pc is "none", "new" (constructed), "deciding" (in the
\* loop of runTask), "done" (runTask returned) or "failed" (runTask rejected).
\* purchased is memory.purchasedPackages as package ids and memoryFile the same
\* list in the memory file.  History: decisions counts the brain's decisions
\* of the task, spentAtStart is monSpent when the task started, saved and
\* registryOpen say whether saveMemory ran and whether the registry is open.
NoAgent ==
    [pc |-> "none", maxSteps |-> 0, budgetMon |-> 0, i |-> 0, decisions |-> 0,
     steps |-> <<>>, completed |-> FALSE, finalSeen |-> FALSE, monSpent |-> 0, spentAtStart |-> 0,
     purchased |-> <<>>, memoryFile |-> <<>>, saved |-> FALSE,
     registryOpen |-> FALSE, last |-> NoTool]

\* No registry and no search engine: the store is used on its own.
MktIdle ==
    /\ packages = <<>>
    /\ transactions = <<>>
    /\ now = 0
    /\ tieBreak = "rowid"
    /\ embedder = FALSE
    /\ summaryStore = <<>>
    /\ lastCall = Null
    /\ lastOut = Null
    /\ procs = NoProcs
    /\ agent = NoAgent
    /\ bounties = <<>>

\* addBatch with the batch kept in lastOp.items.
AddBatchOf(items) ==
    LET r == addBatch(store, items)
        done == Applied(items, store.dimensions)
    IN  /\ store' = r.store
        /\ live' = live \cup IdsOf(done)
        /\ lastAdd' = NoteAdds(lastAdd, done)
        /\ lastOp' = [op |-> "addBatch", id |-> Null, vec |-> <<>>,
                      meta |-> EmptyMeta, topK |-> 0, items |-> items]
        /\ lastRes' = Res(r.ok, r.err)
        /\ UNCHANGED <<file, saved, mktVars>>

\* Batches of up to MaxBatchLen items over two ids, with embeddings of length
\* 1 and 2.
MaxBatchLen == 3
LongBatchItems ==
    {Item("a", <<1, 0>>), Item("a", <<3, 4>>), Item("b", <<1, 0>>), Item("b", <<1>>)}
LongBatches == SeqsUpTo(LongBatchItems, MaxBatchLen)

(***************************************************************************)
(* SpecBatch: stores of either dimension take batches.                     *)
(***************************************************************************)
BatchNext ==
    \/ \E d \in Dimensions : Construct(d)
    \/ \E items \in LongBatches : AddBatchOf(items)
    \/ \E id \in SmallIds : Delete(id)

BatchInit == VSInit /\ MktIdle

SpecBatch == BatchInit /\ [][BatchNext]_vars

(***************************************************************************)
(* SpecStore: one store in memory, every call but save and load.           *)
(***************************************************************************)
StoreNext ==
    \/ \E d \in Dimensions : Construct(d)
    \/ \E id \in Ids, v \in Vecs, m \in Metas : Add(id, v, m)
    \/ \E items \in Batches : AddBatch(items)
    \/ \E v \in QueryVecs, k \in 0..MaxTopK : Query(v, k)
    \/ \E id \in Ids : Delete(id)
    \/ Clear

StoreInit == VSInit /\ MktIdle

SpecStore == StoreInit /\ [][StoreNext]_vars

(***************************************************************************)
(* SpecPersist: the same calls on smaller inputs, with save and load.      *)
(***************************************************************************)
PersistNext ==
    \/ \E d \in Dimensions : Construct(d)
    \/ \E id \in SmallIds, v \in SmallVecs, m \in Metas : Add(id, v, m)
    \/ \E items \in Batches : AddBatch(items)
    \/ \E v \in SmallVecs, k \in 0..MaxTopK : Query(v, k)
    \/ \E id \in SmallIds : Delete(id)
    \/ Clear
    \/ Save
    \/ Load

SpecPersist == StoreInit /\ [][PersistNext]_vars

(***************************************************************************)
(* Claims about LocalVectorStore.                                          *)
(***************************************************************************)
IsZero(v) == \A i \in 1..Len(v) : v[i] = 0
AllVecs == Vecs \cup QueryVecs \cup SmallVecs \cup BatchVecs
OutIds(out) == {out[i].id : i \in 1..Len(out)}

\* C1: add with an embedding whose length differs from the dimensionality throws
\* a dimension mismatch and leaves the store as it was; with the right length it
\* succeeds and the entry is stored.
C1_AddChecksDimension ==
    [][lastOp'.op = "add" =>
          IF Len(lastOp'.vec) # store.dimensions
          THEN /\ ~lastRes'.ok
               /\ lastRes'.err = "DimensionMismatch"
               /\ store' = store
          ELSE /\ lastRes'.ok
               /\ get(store', lastOp'.id) =
                      <<[id |-> lastOp'.id, embedding |-> lastOp'.vec,
                         metadata |-> lastOp'.meta]>>]_vars

\* A rejected add for an id the store already holds.
C1_Witness ==
    /\ lastOp.op = "add"
    /\ lastRes.err = "DimensionMismatch"
    /\ has(store, lastOp.id)

\* C2: query with a vector of the wrong length throws a dimension mismatch,
\* whatever the store holds, and returns no list.
C2_QueryChecksDimension ==
    /\ \A v \in AllVecs, k \in 0..MaxTopK :
           Len(v) # store.dimensions =>
               query(store, v, k) = QueryThrow("DimensionMismatch")
    /\ (lastOp.op = "query" /\ Len(lastOp.vec) # store.dimensions) =>
           /\ ~lastRes.ok
           /\ lastRes.err = "DimensionMismatch"
           /\ lastRes.out = <<>>

\* A rejected query on an empty store.
C2_Witness ==
    /\ lastOp.op = "query"
    /\ lastRes.err = "DimensionMismatch"
    /\ size(store) = 0

\* C3: in every reachable state every stored embedding has the length of the
\* store's dimensionality, so a query with a vector of that length does not throw.
C3_EntriesHaveStoreDimension ==
    /\ \A i \in 1..Len(store.entries) :
           Len(store.entries[i].embedding) = store.dimensions
    /\ \A v \in AllVecs, k \in 0..MaxTopK :
           Len(v) = store.dimensions => query(store, v, k).ok

\* A file was loaded into a store of a different dimensionality.
C3_Witness ==
    /\ lastOp.op = "load"
    /\ lastRes.ok
    /\ size(store) > 0
    /\ store.dimensions = 1

\* C4: ids are unique; size is the number of ids added and not since deleted or
\* cleared; get(id) is the embedding and metadata of the latest successful add.
C4_IdsUniqueLastWriteWins ==
    /\ size(store) = Cardinality(live)
    /\ \A i, j \in 1..Len(store.entries) :
           store.entries[i].id = store.entries[j].id => i = j
    /\ \A id \in Ids :
           IF id \in live
           THEN get(store, id) =
                    <<[id |-> id, embedding |-> lastAdd[id][1],
                       metadata |-> lastAdd[id][2]]>>
           ELSE get(store, id) = <<>>

\* An add overwrote an entry that was not the newest one.
C4_Witness ==
    /\ lastOp.op = "add"
    /\ lastRes.ok
    /\ size(store) >= 2
    /\ store.entries[Len(store.entries)].id # lastOp.id

\* C5: a query that does not throw returns min(topK, size) results, sorted by
\* non-increasing score, each an entry of the store with its cosine score, and
\* no entry left out scores higher than a returned one; a query with a vector of
\* the store's dimensionality does not throw, on an empty store either.
C5_TopK ==
    lastOp.op = "query" =>
        LET out == lastRes.out
            q == lastOp.vec
        IN  /\ Len(q) = store.dimensions => lastRes.ok
            /\ lastRes.ok =>
                /\ Len(out) = Min(lastOp.topK, size(store))
                /\ \A i \in 1..(Len(out) - 1) : out[i].score >= out[i + 1].score
                /\ \A i, j \in 1..Len(out) : out[i].id = out[j].id => i = j
                /\ \A i \in 1..Len(out) :
                       /\ has(store, out[i].id)
                       /\ out[i].score =
                              cosineSimilarity(q, get(store, out[i].id)[1].embedding).val
                       /\ out[i].metadata = get(store, out[i].id)[1].metadata
                /\ \A e \in 1..Len(store.entries), i \in 1..Len(out) :
                       store.entries[e].id \notin OutIds(out) =>
                           cosineSimilarity(q, store.entries[e].embedding).val
                               <= out[i].score

\* Top 2 of 3 entries, where the best entry was not the first one added.
C5_Witness ==
    /\ lastOp.op = "query"
    /\ lastRes.ok
    /\ size(store) = 3
    /\ Len(lastRes.out) = 2
    /\ lastRes.out[1].score > lastRes.out[2].score
    /\ lastRes.out[1].id # store.entries[1].id

PkgIds == {1, 2, 3}
Queries == {"ts", "py", ""}

\* The text a package is listed with.
TextOf(id) == IF id = 1 THEN {"ts"} ELSE IF id = 2 THEN {"ts", "py"} ELSE {"py"}

\* Bounds of the registry.
MaxTime == 1
MaxSales == 2

\* How rows that tie on (times_sold, created_at) come out: SQL leaves it open.
TieBreaks == {"rowid", "reverse"}

\* INSERT OR REPLACE: the row of the same id goes, the new row gets the next rowid,
\* times_sold its default 0 and created_at its default datetime('now').
listPackage(rows, id, text, t) ==
    Append(MapDelete(rows, id),
           [id |-> id, text |-> text, timesSold |-> 0, createdAt |-> t])

\* SELECT * FROM packages WHERE id = ?: <<the row>>, or <<>> for null.
getPackage(rows, id) == MapGet(rows, id)

\* INSERT INTO transactions, then UPDATE packages SET times_sold = times_sold + 1
\* WHERE id = ?: no foreign key is enforced, an unlisted id updates no row.
recordSaleTransactions(txs, packageId) ==
    Append(txs, [id |-> Len(txs) + 1, packageId |-> packageId])

recordSalePackagesAll(rows, packageId) ==
    [i \in 1..Len(rows) |-> [rows[i] EXCEPT !.timesSold = @ + 1]]

recordSalePackages(rows, packageId) ==
    [i \in 1..Len(rows) |->
        IF rows[i].id = packageId
        THEN [rows[i] EXCEPT !.timesSold = @ + 1]
        ELSE rows[i]]

Reverse(s) == [i \in 1..Len(s) |-> s[Len(s) + 1 - i]]

\* SELECT * FROM transactions WHERE package_id = ? ORDER BY id DESC.
getSales(txs, packageId) ==
    Reverse(SelectSeq(txs, LAMBDA tx : tx.packageId = packageId))

deletePackage(rows, id) == MapDelete(rows, id)

\* name LIKE ? OR description LIKE ? OR tags LIKE ?, with the pattern %query%.
Matches(row, q) == q = "" \/ q \in row.text

\* ORDER BY times_sold DESC, created_at DESC.
Before(x, y) ==
    \/ x.timesSold > y.timesSold
    \/ x.timesSold = y.timesSold /\ x.createdAt > y.createdAt

RECURSIVE InsertRow(_, _)
InsertRow(sorted, x) ==
    IF sorted = <<>>
    THEN <<x>>
    ELSE IF Before(x, Head(sorted))
         THEN <<x>> \o sorted
         ELSE <<Head(sorted)>> \o InsertRow(Tail(sorted), x)

RECURSIVE SortRows(_)
SortRows(s) ==
    IF s = <<>>
    THEN <<>>
    ELSE InsertRow(SortRows(SubSeq(s, 1, Len(s) - 1)), s[Len(s)])

searchByKeyword(rows, q, tb) ==
    LET found == SelectSeq(rows, LAMBDA r : Matches(r, q))
    IN  SortRows(IF tb = "rowid" THEN found ELSE Reverse(found))

(***************************************************************************)
(* MarketplaceSearch.keywordSearch                                         *)
(***************************************************************************)
\* The 0.05 of a rank, in units of One.
KeywordStep == 50

keywordSearchFlatStep(rows, q, tb) ==
    LET listings == searchByKeyword(rows, q, tb)
    IN  [i \in 1..Len(listings) |->
            [listing |-> listings[i],
             score |-> One - ((i - 1) \div 2) * (2 * KeywordStep),
             matchType |-> "keyword"]]

\* listings.map((listing, index) => ({listing, score: 1.0 - index * 0.05, ...})).
keywordSearch(rows, q, tb) ==
    LET listings == searchByKeyword(rows, q, tb)
    IN  [i \in 1..Len(listings) |->
            [listing |-> listings[i],
             score |-> One - (i - 1) * KeywordStep,
             matchType |-> "keyword"]]

(***************************************************************************)
(* MarketplaceSearch: semanticSearch, combineResults, search and the       *)
(* summary index.  The embedding provider is outside the program: embedOne *)
(* resolves with some vector, <<v>>, or rejects, <<>>.                     *)
(***************************************************************************)
\* config.geminiEmbeddingDimensions, what embedder.getDimensions() returns.
ProviderDims == 2

\* What embedOne resolves with for a summary text, and for a query.
SummaryEmbeddings == {<<>>, <<<<1, 0>>>>, <<<<3, 4>>>>, <<<<1>>>>}
QueryEmbeddings == {<<>>, <<<<1, 0>>>>, <<<<-1, 0>>>>, <<<<1>>>>}

\* Bound of the search.
MaxLimit == 2

\* called: whether the embedding provider was called.
SemOk(out) == [ok |-> TRUE, err |-> Null, out |-> out, called |-> TRUE]
SemThrow(e) == [ok |-> FALSE, err |-> e, out |-> <<>>, called |-> TRUE]
SemSkip == [ok |-> TRUE, err |-> Null, out |-> <<>>, called |-> FALSE]

\* result.metadata?.packageId: <<the id>>, or <<>> for undefined.
PackageIdOf(metadata) ==
    IF \E p \in metadata : p[1] = "packageId"
    THEN <<(CHOOSE p \in metadata : p[1] = "packageId")[2]>>
    ELSE <<>>

\* The loop of semanticSearch: a result with no packageId or no listing is skipped.
RECURSIVE Resolve(_, _)
Resolve(results, rows) ==
    IF results = <<>>
    THEN <<>>
    ELSE LET result == Head(results)
             packageId == PackageIdOf(result.metadata)
             listing == IF packageId = <<>> THEN <<>> ELSE getPackage(rows, packageId[1])
         IN  (IF listing = <<>>
              THEN <<>>
              ELSE <<[listing |-> listing[1], score |-> result.score,
                      matchType |-> "semantic"]>>)
             \o Resolve(Tail(results), rows)

semanticSearchEmbedFirst(emb, ss, rows, embedded, limit) ==
    IF embedded = <<>>
    THEN SemThrow("EmbedError")
    ELSE IF ~emb \/ ss = <<>>
         THEN SemOk(<<>>)
         ELSE LET results == query(ss[1], embedded[1], limit)
              IN  IF results.ok
                  THEN SemOk(Resolve(results.out, rows))
                  ELSE SemThrow(results.err)

semanticSearchFilterFirst(emb, ss, rows, embedded, limit) ==
    IF ~emb \/ ss = <<>>
    THEN SemSkip
    ELSE IF embedded = <<>>
         THEN SemThrow("EmbedError")
         ELSE LET results == query(ss[1], embedded[1], size(ss[1]))
              IN  IF results.ok
                  THEN SemOk(Slice(Resolve(results.out, rows), limit))
                  ELSE SemThrow(results.err)

semanticSearch(emb, ss, rows, embedded, limit) ==
    IF ~emb \/ ss = <<>>
    THEN SemSkip
    ELSE IF embedded = <<>>
         THEN SemThrow("EmbedError")
         ELSE LET results == query(ss[1], embedded[1], limit)
              IN  IF results.ok
                  THEN SemOk(Resolve(results.out, rows))
                  ELSE SemThrow(results.err)

\* KEYWORD_WEIGHT = 0.4 and SEMANTIC_WEIGHT = 0.6, in units of One.
KEYWORD_WEIGHT == 400
SEMANTIC_WEIGHT == 600

\* scoreMap, a Map keyed by listing id, after the loop over the keyword results.
RECURSIVE SetKeyword(_, _)
SetKeyword(scoreMap, keyword) ==
    IF keyword = <<>>
    THEN scoreMap
    ELSE LET r == Head(keyword)
         IN  SetKeyword(MapSet(scoreMap,
                               [id |-> r.listing.id, listing |-> r.listing,
                                keywordScore |-> r.score, semanticScore |-> 0]),
                        Tail(keyword))

\* ... and after the loop over the semantic results.
RECURSIVE SetSemantic(_, _)
SetSemantic(scoreMap, semantic) ==
    IF semantic = <<>>
    THEN scoreMap
    ELSE LET r == Head(semantic)
             existing == MapGet(scoreMap, r.listing.id)
             entry == IF existing # <<>>
                      THEN [existing[1] EXCEPT !.semanticScore = r.score]
                      ELSE [id |-> r.listing.id, listing |-> r.listing,
                            keywordScore |-> 0, semanticScore |-> r.score]
         IN  SetSemantic(MapSet(scoreMap, entry), Tail(semantic))

MatchTypeOf(entry) ==
    IF entry.keywordScore > 0 /\ entry.semanticScore > 0
    THEN "combined"
    ELSE IF entry.keywordScore > 0 THEN "keyword" ELSE "semantic"

combineResultsNoSort(keyword, semantic, limit) ==
    LET scoreMap == SetSemantic(SetKeyword(<<>>, keyword), semantic)
        combined == [i \in 1..Len(scoreMap) |->
                        [listing |-> scoreMap[i].listing,
                         score |-> (scoreMap[i].keywordScore * KEYWORD_WEIGHT
                                    + scoreMap[i].semanticScore * SEMANTIC_WEIGHT) \div One,
                         matchType |-> MatchTypeOf(scoreMap[i])]]
    IN  Slice(combined, limit)

combineResultsSwapped(keyword, semantic, limit) ==
    LET scoreMap == SetSemantic(SetKeyword(<<>>, keyword), semantic)
        combined == [i \in 1..Len(scoreMap) |->
                        [listing |-> scoreMap[i].listing,
                         score |-> (scoreMap[i].keywordScore * SEMANTIC_WEIGHT
                                    + scoreMap[i].semanticScore * KEYWORD_WEIGHT) \div One,
                         matchType |-> MatchTypeOf(scoreMap[i])]]
    IN  Slice(SortDesc(combined), limit)

combineResults(keyword, semantic, limit) ==
    LET scoreMap == SetSemantic(SetKeyword(<<>>, keyword), semantic)
        combined == [i \in 1..Len(scoreMap) |->
                        [listing |-> scoreMap[i].listing,
                         score |-> (scoreMap[i].keywordScore * KEYWORD_WEIGHT
                                    + scoreMap[i].semanticScore * SEMANTIC_WEIGHT) \div One,
                         matchType |-> MatchTypeOf(scoreMap[i])]]
    IN  Slice(SortDesc(combined), limit)

\* kw and sem are the two legs as search saw them; fused says combineResults ran.
SearchOut(ok, err, out, kw, sem, fused) ==
    [ok |-> ok, err |-> err, out |-> out, kw |-> kw, sem |-> sem, fused |-> fused,
     val |-> <<>>]

searchAlwaysFuse(emb, ss, rows, tb, q, embedded, limit) ==
    LET keywordResults == keywordSearch(rows, q, tb)
        semantic == IF emb /\ ss # <<>> /\ size(ss[1]) > 0
                    THEN semanticSearch(emb, ss, rows, embedded, limit)
                    ELSE SemSkip
    IN  IF ~semantic.ok
        THEN SearchOut(FALSE, semantic.err, <<>>, keywordResults, <<>>, FALSE)
        ELSE SearchOut(TRUE, Null,
                       combineResults(keywordResults, semantic.out, limit),
                       keywordResults, semantic.out, TRUE)

searchFallBack(emb, ss, rows, tb, q, embedded, limit) ==
    LET keywordResults == keywordSearch(rows, q, tb)
        semantic == IF emb /\ ss # <<>> /\ size(ss[1]) > 0
                    THEN semanticSearch(emb, ss, rows, embedded, limit)
                    ELSE SemSkip
    IN  IF ~semantic.ok \/ Len(semantic.out) = 0
        THEN SearchOut(TRUE, Null, Slice(keywordResults, limit),
                       keywordResults, <<>>, FALSE)
        ELSE SearchOut(TRUE, Null,
                       combineResults(keywordResults, semantic.out, limit),
                       keywordResults, semantic.out, TRUE)

search(emb, ss, rows, tb, q, embedded, limit) ==
    LET keywordResults == keywordSearch(rows, q, tb)
        semantic == IF emb /\ ss # <<>> /\ size(ss[1]) > 0
                    THEN semanticSearch(emb, ss, rows, embedded, limit)
                    ELSE SemSkip
    IN  IF ~semantic.ok
        THEN SearchOut(FALSE, semantic.err, <<>>, keywordResults, <<>>, FALSE)
        ELSE IF Len(semantic.out) = 0
             THEN SearchOut(TRUE, Null, Slice(keywordResults, limit),
                            keywordResults, <<>>, FALSE)
             ELSE SearchOut(TRUE, Null,
                            combineResults(keywordResults, semantic.out, limit),
                            keywordResults, semantic.out, TRUE)

\* An index file that JSON.parse rejects.
Unreadable == [unreadable |-> TRUE]

\* The engine's embedder and summaryStore and the index file after the call.
IndexOut(ok, err, emb, ss, f) ==
    [ok |-> ok, err |-> err, embedder |-> emb, summaryStore |-> ss, file |-> f]

indexPackageSummaryFresh(ss, f, packageId, embedded) ==
    LET st == IF ss # <<>> THEN ss[1] ELSE NewStore(ProviderDims)
    IN  IF embedded = <<>>
        THEN IndexOut(FALSE, "EmbedError", TRUE, <<st>>, f)
        ELSE LET r == add(st, packageId, embedded[1], {<<"packageId", packageId>>})
             IN  IF r.ok
                 THEN IndexOut(TRUE, Null, TRUE, <<r.store>>, <<save(r.store)>>)
                 ELSE IndexOut(FALSE, r.err, TRUE, <<st>>, f)

\* indexPackageSummary up to its await: the embedder and the store are set up.
\* When LocalVectorStore.load throws, summaryStore is already the new empty store.
indexPackageSummaryBegin(ss, f) ==
    IF ss # <<>>
    THEN IndexOut(TRUE, Null, TRUE, ss, f)
    ELSE IF f = <<>>
         THEN IndexOut(TRUE, Null, TRUE, <<NewStore(ProviderDims)>>, f)
         ELSE IF f = <<Unreadable>>
              THEN IndexOut(FALSE, "ParseError", TRUE, <<NewStore(ProviderDims)>>, f)
              ELSE IndexOut(TRUE, Null, TRUE,
                            <<load(NewStore(ProviderDims), f[1])>>, f)

indexPackageSummaryEndNoCheck(st, f, packageId, embedded) ==
    IF embedded = <<>>
    THEN IndexOut(FALSE, "EmbedError", TRUE, <<st>>, f)
    ELSE LET r == addNoCheck(st, packageId, embedded[1], {<<"packageId", packageId>>})
         IN  IndexOut(TRUE, Null, TRUE, <<r.store>>, <<save(r.store)>>)

indexPackageSummaryEndMerge(st, f, packageId, embedded) ==
    IF embedded = <<>>
    THEN IndexOut(FALSE, "EmbedError", TRUE, <<st>>, f)
    ELSE LET base == IF f # <<>> /\ f # <<Unreadable>>
                     THEN load(NewStore(ProviderDims), f[1])
                     ELSE st
             r == add(base, packageId, embedded[1], {<<"packageId", packageId>>})
         IN  IF r.ok
             THEN IndexOut(TRUE, Null, TRUE, <<r.store>>, <<save(r.store)>>)
             ELSE IndexOut(FALSE, r.err, TRUE, <<st>>, f)

\* indexPackageSummary from the await on: embedOne settles, then add and save run
\* on the store st held in memory; f is the index file as it is by then.
indexPackageSummaryEnd(st, f, packageId, embedded) ==
    IF embedded = <<>>
    THEN IndexOut(FALSE, "EmbedError", TRUE, <<st>>, f)
    ELSE LET r == add(st, packageId, embedded[1], {<<"packageId", packageId>>})
         IN  IF r.ok
             THEN IndexOut(TRUE, Null, TRUE, <<r.store>>, <<save(r.store)>>)
             ELSE IndexOut(FALSE, r.err, TRUE, <<st>>, f)

\* The whole call, with nothing else touching the file meanwhile.
indexPackageSummary(ss, f, packageId, embedded) ==
    LET begun == indexPackageSummaryBegin(ss, f)
    IN  IF begun.ok
        THEN indexPackageSummaryEnd(begun.summaryStore[1], f, packageId, embedded)
        ELSE begun

\* if (existsSync(indexPath)) this.summaryStore = LocalVectorStore.load(indexPath).
loadSummaryIndex(ss, f) ==
    IF f # <<>> THEN <<load(NewStore(ProviderDims), f[1])>> ELSE ss

(***************************************************************************)
(* The calls on the registry and on one MarketplaceSearch, as actions.     *)
(* Each call runs to its end before the next one starts.                   *)
(***************************************************************************)
Call(name) ==
    [op |-> name, id |-> 0, query |-> "", limit |-> 0, embedded |-> <<>>]

Out(ok, err) == SearchOut(ok, err, <<>>, <<>>, <<>>, FALSE)

\* No LocalVectorStore is used on its own.
VSIdle ==
    /\ store = NewStore(ProviderDims)
    /\ saved = <<>>
    /\ live = {}
    /\ lastAdd = NoAdds
    /\ lastOp = Op("construct")
    /\ lastRes = Res(TRUE, Null)

\* An empty database, no index file and a new MarketplaceSearch.
MktInit ==
    /\ packages = <<>>
    /\ transactions = <<>>
    /\ now = 0
    /\ tieBreak \in TieBreaks
    /\ embedder = FALSE
    /\ summaryStore = <<>>
    /\ file = <<>>
    /\ lastCall = Call("init")
    /\ lastOut = Out(TRUE, Null)
    /\ procs = NoProcs
    /\ agent = NoAgent
    /\ bounties = <<>>

\* dt seconds pass, then listPackage runs.
ListPackage(id, text, dt) ==
    /\ now + dt <= MaxTime
    /\ now' = now + dt
    /\ packages' = listPackage(packages, id, text, now')
    /\ lastCall' = [Call("listPackage") EXCEPT !.id = id]
    /\ lastOut' = Out(TRUE, Null)
    /\ UNCHANGED <<transactions, tieBreak, embedder, summaryStore, file, vsOnly, procs, agent, bounties>>

RecordSale(packageId) ==
    /\ Len(transactions) < MaxSales
    /\ transactions' = recordSaleTransactions(transactions, packageId)
    /\ packages' = recordSalePackages(packages, packageId)
    /\ lastCall' = [Call("recordSale") EXCEPT !.id = packageId]
    /\ lastOut' = Out(TRUE, Null)
    /\ UNCHANGED <<now, tieBreak, embedder, summaryStore, file, vsOnly, procs, agent, bounties>>

\* Returns whether the row count went down.
DeletePackage(id) ==
    /\ packages' = deletePackage(packages, id)
    /\ lastCall' = [Call("deletePackage") EXCEPT !.id = id]
    /\ lastOut' = [Out(TRUE, Null) EXCEPT !.val = <<Len(packages') < Len(packages)>>]
    /\ UNCHANGED <<transactions, now, tieBreak, embedder, summaryStore, file, vsOnly, procs, agent, bounties>>

\* recordSale as its callers use it: after getPackage found the package.
RecordSaleListed(packageId) ==
    /\ getPackage(packages, packageId) # <<>>
    /\ RecordSale(packageId)

GetSales(packageId) ==
    /\ lastCall' = [Call("getSales") EXCEPT !.id = packageId]
    /\ lastOut' = [Out(TRUE, Null) EXCEPT !.out = getSales(transactions, packageId)]
    /\ UNCHANGED <<regVars, embedder, summaryStore, file, vsOnly, procs, agent, bounties>>

KeywordSearch(q) ==
    /\ lastCall' = [Call("keywordSearch") EXCEPT !.query = q]
    /\ lastOut' = [Out(TRUE, Null) EXCEPT
                       !.out = keywordSearch(packages, q, tieBreak)]
    /\ UNCHANGED <<regVars, embedder, summaryStore, file, vsOnly, procs, agent, bounties>>

\* new MarketplaceSearch(registry): both fields are null.
NewEngine ==
    /\ embedder' = FALSE
    /\ summaryStore' = <<>>
    /\ lastCall' = Call("new")
    /\ lastOut' = Out(TRUE, Null)
    /\ UNCHANGED <<regVars, file, vsOnly, procs, agent, bounties>>

LoadSummaryIndex ==
    /\ summaryStore' = IF file = <<Unreadable>>
                       THEN summaryStore
                       ELSE loadSummaryIndex(summaryStore, file)
    /\ lastCall' = Call("loadSummaryIndex")
    /\ lastOut' = IF file = <<Unreadable>>
                  THEN Out(FALSE, "ParseError")
                  ELSE Out(TRUE, Null)
    /\ UNCHANGED <<regVars, embedder, file, vsOnly, procs, agent, bounties>>

\* val is <<whether this call loaded the index file>>.
IndexPackageSummary(packageId, embedded) ==
    LET r == indexPackageSummary(summaryStore, file, packageId, embedded)
    IN  /\ embedder' = r.embedder
        /\ summaryStore' = r.summaryStore
        /\ file' = r.file
        /\ lastCall' = [Call("indexPackageSummary") EXCEPT
                            !.id = packageId, !.embedded = embedded]
        /\ lastOut' = [Out(r.ok, r.err) EXCEPT
                           !.val = <<summaryStore = <<>> /\ file # <<>>>>]
        /\ UNCHANGED <<regVars, vsOnly, procs, agent, bounties>>

Search(q, embedded, limit) ==
    /\ lastCall' = [Call("search") EXCEPT
                        !.query = q, !.embedded = embedded, !.limit = limit]
    /\ lastOut' = search(embedder, summaryStore, packages, tieBreak, q, embedded, limit)
    /\ UNCHANGED <<regVars, embedder, summaryStore, file, vsOnly, procs, agent, bounties>>

\* semanticSearch called on its own; val is <<whether the provider was called>>.
SemanticSearch(embedded, limit) ==
    LET r == semanticSearch(embedder, summaryStore, packages, embedded, limit)
    IN  /\ lastCall' = [Call("semanticSearch") EXCEPT
                            !.embedded = embedded, !.limit = limit]
        /\ lastOut' = [SearchOut(r.ok, r.err, r.out, <<>>, <<>>, FALSE) EXCEPT
                           !.val = <<r.called>>]
        /\ UNCHANGED <<regVars, embedder, summaryStore, file, vsOnly, procs, agent, bounties>>

\* The sell command from "Registering in marketplace..." on: listPackage, then,
\* when the package has a summary.md, indexPackageSummary on a new engine.
SellOut(ok, rows, f, indexed) ==
    [ok |-> ok, packages |-> rows, file |-> f, indexed |-> indexed]

sellNoCatch(rows, f, id, text, t, hasSummary, embedded) ==
    LET listed == listPackage(rows, id, text, t)
        r == indexPackageSummary(<<>>, f, id, embedded)
    IN  IF hasSummary
        THEN SellOut(r.ok, listed, r.file, r.ok)
        ELSE SellOut(TRUE, listed, f, FALSE)

\* catch { /* optional */ }: a failed indexing is swallowed.
sell(rows, f, id, text, t, hasSummary, embedded) ==
    LET listed == listPackage(rows, id, text, t)
        r == indexPackageSummary(<<>>, f, id, embedded)
    IN  IF hasSummary
        THEN SellOut(TRUE, listed, r.file, r.ok)
        ELSE SellOut(TRUE, listed, f, FALSE)

\* The command's engine is its own; val is <<hasSummary, whether it was indexed>>.
Sell(id, hasSummary, embedded) ==
    LET r == sell(packages, file, id, TextOf(id), now, hasSummary, embedded)
    IN  /\ packages' = r.packages
        /\ file' = r.file
        /\ lastCall' = [Call("sell") EXCEPT !.id = id, !.embedded = embedded]
        /\ lastOut' = [Out(r.ok, Null) EXCEPT !.val = <<hasSummary, r.indexed>>]
        /\ UNCHANGED <<transactions, now, tieBreak, embedder, summaryStore, vsOnly, procs, agent, bounties>>

\* this.summaryStore.add(...) after the await: the field is read when the call
\* resumes, not when it started.
summaryStoreCaptured(current, atBegin) == atBegin

summaryStoreAtAdd(current, atBegin) == current

\* Call c on the one engine starts indexPackageSummary(id, ...) and reaches the
\* await of embedOne.  procs[c] is the call; its summaryStore field is the
\* engine's index as the call saw it when it started.
CallIndexBegin(c, id) ==
    /\ procs[c].pc = "idle"
    /\ LET begun == indexPackageSummaryBegin(summaryStore, file)
       IN  /\ embedder' = begun.embedder
           /\ summaryStore' = begun.summaryStore
           /\ procs' = [procs EXCEPT ![c] =
                   [NoProc EXCEPT
                       !.pc = IF begun.ok THEN "embedding" ELSE "done",
                       !.packageId = id,
                       !.summaryStore = begun.summaryStore,
                       !.loaded = file,
                       !.early = \A r \in ProcIds : procs[r].wrote = 0]]
    /\ UNCHANGED <<regVars, file, lastCall, lastOut, vsOnly,
                 agent, bounties>>

\* embedOne settles for call c; add and save run on the engine's index.
CallIndexEnd(c, embedded) ==
    /\ procs[c].pc = "embedding"
    /\ LET st == summaryStoreAtAdd(summaryStore, procs[c].summaryStore)
           r == indexPackageSummaryEnd(st[1], file, procs[c].packageId, embedded)
           rank == Cardinality({q \in ProcIds : procs[q].wrote > 0}) + 1
       IN  /\ summaryStore' = r.summaryStore
           /\ file' = r.file
           /\ procs' = [procs EXCEPT ![c] =
                   [@ EXCEPT !.pc = "done",
                             !.embedded = embedded,
                             !.ok = r.ok,
                             !.wrote = IF r.ok THEN rank ELSE 0]]
    /\ UNCHANGED <<regVars, embedder, lastCall, lastOut, vsOnly,
                 agent, bounties>>

\* The calls that ran have returned; the engine and the file stay.
CallsReturn ==
    /\ \A c \in ProcIds : procs[c].pc # "embedding"
    /\ \E c \in ProcIds : procs[c].pc = "done"
    /\ procs' = NoProcs
    /\ UNCHANGED <<regVars, embedder, summaryStore, file, lastCall, lastOut, vsOnly,
                 agent, bounties>>

\* new MarketplaceSearch(registry), with no call in flight.
CallsNewEngine ==
    /\ \A c \in ProcIds : procs[c].pc = "idle"
    /\ NewEngine

\* Process p, a new engine, starts indexPackageSummary(id, ...) and reaches the
\* await of embedOne.
ProcIndexBegin(p, id) ==
    /\ procs[p].pc = "idle"
    /\ LET begun == indexPackageSummaryBegin(<<>>, file)
       IN  procs' = [procs EXCEPT ![p] =
               [NoProc EXCEPT
                   !.pc = IF begun.ok THEN "embedding" ELSE "done",
                   !.packageId = id,
                   !.summaryStore = begun.summaryStore,
                   !.loaded = file,
                   !.early = \A r \in ProcIds : procs[r].wrote = 0]]
    /\ UNCHANGED <<regVars, embedder, summaryStore, file, lastCall, lastOut, vsOnly,
                 agent, bounties>>

\* embedOne settles for process p; add and save run without another await.
ProcIndexEnd(p, embedded) ==
    /\ procs[p].pc = "embedding"
    /\ LET r == indexPackageSummaryEnd(procs[p].summaryStore[1], file,
                                       procs[p].packageId, embedded)
           rank == Cardinality({q \in ProcIds : procs[q].wrote > 0}) + 1
       IN  /\ file' = r.file
           /\ procs' = [procs EXCEPT ![p] =
                   [@ EXCEPT !.pc = "done",
                             !.summaryStore = r.summaryStore,
                             !.embedded = embedded,
                             !.ok = r.ok,
                             !.wrote = IF r.ok THEN rank ELSE 0]]
    /\ UNCHANGED <<regVars, embedder, summaryStore, lastCall, lastOut, vsOnly,
                 agent, bounties>>

\* The processes that ran have exited; the index file stays.
ProcsExit ==
    /\ \A p \in ProcIds : procs[p].pc # "embedding"
    /\ \E p \in ProcIds : procs[p].pc = "done"
    /\ procs' = NoProcs
    /\ UNCHANGED <<regVars, embedder, summaryStore, file, lastCall, lastOut, vsOnly,
                 agent, bounties>>

(***************************************************************************)
(* The bounties table.  A bounty's id is made from the clock.              *)
(***************************************************************************)
BountyIds(bs) == {bs[i].id : i \in 1..Len(bs)}

\* postBounty: INSERT with status 'open'; the id is the primary key, so a
\* second bounty in the same millisecond is refused.
postBounty(bs, time, rewardMon) ==
    IF time \in BountyIds(bs)
    THEN [ok |-> FALSE, bounties |-> bs]
    ELSE [ok |-> TRUE,
          bounties |-> Append(bs, [id |-> time, rewardMon |-> rewardMon,
                                   fulfiller |-> Null, status |-> "open"])]

RECURSIVE byRewardDesc(_, _)
byRewardDesc(rows, r) ==
    IF r < 0
    THEN <<>>
    ELSE SelectSeq(rows, LAMBDA b : b.rewardMon = r) \o byRewardDesc(rows, r - 1)

\* getOpenBounties: WHERE status = 'open' ORDER BY reward_mon DESC.
getOpenBounties(bs, tb) ==
    LET open == SelectSeq(bs, LAMBDA b : b.status = "open")
    IN  byRewardDesc(IF tb = "rowid" THEN open ELSE Reverse(open), 2)

\* fulfillBounty: UPDATE ... WHERE id = ? AND status = 'open', then the row's
\* status is read back and compared with 'fulfilled'.
fulfillBounty(bs, bountyId, fulfiller) ==
    LET hit(b) == b.id = bountyId /\ b.status = "open"
        after == [i \in 1..Len(bs) |->
                    IF hit(bs[i])
                    THEN [bs[i] EXCEPT !.status = "fulfilled", !.fulfiller = fulfiller]
                    ELSE bs[i]]
    IN  [bounties |-> after,
         fulfilled |-> \E i \in 1..Len(after) :
                          after[i].id = bountyId /\ after[i].status = "fulfilled"]

PostBounty(dt, rewardMon) ==
    /\ now + dt <= MaxTime
    /\ now' = now + dt
    /\ LET r == postBounty(bounties, now', rewardMon)
       IN  /\ bounties' = r.bounties
           /\ lastCall' = [Call("postBounty") EXCEPT !.id = now']
           /\ lastOut' = Out(r.ok, Null)
    /\ UNCHANGED <<packages, transactions, tieBreak, embedder, summaryStore, file,
                   vsOnly, procs, agent>>

FulfillBounty(bountyId, fulfiller) ==
    /\ LET r == fulfillBounty(bounties, bountyId, fulfiller)
       IN  /\ bounties' = r.bounties
           /\ lastCall' = [Call("fulfillBounty") EXCEPT !.id = bountyId,
                                                        !.query = fulfiller]
           /\ lastOut' = [Out(TRUE, Null) EXCEPT !.out = <<r.fulfilled>>]
    /\ UNCHANGED <<regVars, embedder, summaryStore, file, vsOnly, procs, agent>>

GetOpenBounties ==
    /\ lastCall' = Call("getOpenBounties")
    /\ lastOut' = [Out(TRUE, Null) EXCEPT !.out = getOpenBounties(bounties, tieBreak)]
    /\ UNCHANGED <<regVars, embedder, summaryStore, file, vsOnly, procs, agent,
                   bounties>>

(***************************************************************************)
(* AutonomousAgent: runTask and the buy_knowledge tool.  The brain, the     *)
(* wallet and the chain are outside the program: a decision, whether a     *)
(* wallet is configured and whether the payment goes through are inputs.   *)
(***************************************************************************)
\* What a package is listed with: its price in MON, whether it has a token
\* address, whether it has a creator address.
PriceOf(id) == IF id = 1 THEN 2 ELSE IF id = 2 THEN 3 ELSE 0
HasToken(id) == id = 2
HasCreator(id) == id \in {1, 2}

\* config.maxSteps ?? 10 and config.budgetMon ?? 5.
DefaultMaxSteps == 10
DefaultBudgetMon == 5

OrElse(opt, default) == IF opt = <<>> THEN default ELSE opt[1]

SeqIds(list) == {list[i] : i \in 1..Len(list)}

\* The outcome of a tool: what it returns and what it leaves behind.
ToolOut(success, why, paid, monSpent, purchased, rows, txs, txHash) ==
    [success |-> success, why |-> why, paid |-> paid, monSpent |-> monSpent,
     purchased |-> purchased, packages |-> rows, transactions |-> txs,
     txHash |-> txHash]

toolBuyKnowledgeNoBudget(monSpent, purchased, rows, txs, packageId, budgetMon, wallet, pay) ==
    LET price == PriceOf(packageId)
        Stop(success, why, paid) ==
            ToolOut(success, why, paid, monSpent, purchased, rows, txs, <<>>)
        Buy(paid, txHash) ==
            ToolOut(TRUE, "bought", paid, monSpent + price,
                    Append(purchased, packageId),
                    recordSalePackages(rows, packageId),
                    recordSaleTransactions(txs, packageId), <<txHash>>)
    IN  IF packageId \in SeqIds(purchased) THEN Stop(TRUE, "owned", "none")
        ELSE IF getPackage(rows, packageId) = <<>> THEN Stop(FALSE, "notFound", "none")
        ELSE IF HasToken(packageId)
             THEN IF ~wallet THEN Stop(FALSE, "noWallet", "none")
                  ELSE IF pay = "ok" THEN Buy("ok", "chain")
                       ELSE Stop(FALSE, "buyFailed", "failed")
        ELSE IF HasCreator(packageId) /\ price > 0
             THEN IF pay = "ok" THEN Buy("ok", "chain")
                  ELSE Buy("failed", "local-fallback")
        ELSE Buy("none", "local")

\* toolBuyKnowledge: already owned, not found, over budget, then the payment (a
\* token buy whose failure ends the tool, or a direct payment whose failure is
\* swallowed), then recordSale, monSpent and addPurchase.
toolBuyKnowledge(monSpent, purchased, rows, txs, packageId, budgetMon, wallet, pay) ==
    LET price == PriceOf(packageId)
        Stop(success, why, paid) ==
            ToolOut(success, why, paid, monSpent, purchased, rows, txs, <<>>)
        Buy(paid, txHash) ==
            ToolOut(TRUE, "bought", paid, monSpent + price,
                    Append(purchased, packageId),
                    recordSalePackages(rows, packageId),
                    recordSaleTransactions(txs, packageId), <<txHash>>)
    IN  IF packageId \in SeqIds(purchased) THEN Stop(TRUE, "owned", "none")
        ELSE IF getPackage(rows, packageId) = <<>> THEN Stop(FALSE, "notFound", "none")
        ELSE IF monSpent + price > budgetMon THEN Stop(FALSE, "budget", "none")
        ELSE IF HasToken(packageId)
             THEN IF ~wallet THEN Stop(FALSE, "noWallet", "none")
                  ELSE IF pay = "ok" THEN Buy("ok", "chain")
                       ELSE Stop(FALSE, "buyFailed", "failed")
        ELSE IF HasCreator(packageId) /\ price > 0
             THEN IF pay = "ok" THEN Buy("ok", "chain")
                  ELSE Buy("failed", "local-fallback")
        ELSE Buy("none", "local")

\* toolListMarketplace, a tool that only reads.
toolListMarketplace(monSpent, purchased, rows, txs) ==
    ToolOut(TRUE, "listed", "none", monSpent, purchased, rows, txs, <<>>)

\* executeTool: the switch over the tool name.
executeTool(tool, monSpent, purchased, rows, txs, packageId, budgetMon, wallet, pay) ==
    IF tool = "buy_knowledge"
    THEN toolBuyKnowledge(monSpent, purchased, rows, txs, packageId, budgetMon,
                          wallet, pay)
    ELSE IF tool = "list_marketplace"
         THEN toolListMarketplace(monSpent, purchased, rows, txs)
         ELSE ToolOut(FALSE, "unknownTool", "none", monSpent, purchased, rows, txs, <<>>)

\* for (let i = 0; i < maxSteps; i++): whether the loop goes on.
loopGoesOnInclusive(i, maxSteps, completed) == i <= maxSteps /\ ~completed

loopGoesOn(i, maxSteps, completed) == i < maxSteps /\ ~completed

\* new AutonomousAgent(): monSpent is 0 and the memory is loaded.
NewAgent ==
    /\ agent.pc \in {"none", "done", "failed"}
    /\ agent' = [NoAgent EXCEPT !.pc = "new",
                                !.purchased = agent.memoryFile,
                                !.memoryFile = agent.memoryFile]
    /\ UNCHANGED <<vsVars, regVars, embedder, summaryStore, lastCall, lastOut,
                   procs, bounties>>

\* runTask up to its loop: registry.init() and loadMemory.
RunTask(maxSteps, budgetMon) ==
    /\ agent.pc \in {"new", "done"}
    /\ agent' = [agent EXCEPT !.pc = "deciding",
                              !.maxSteps = OrElse(maxSteps, DefaultMaxSteps),
                              !.budgetMon = OrElse(budgetMon, DefaultBudgetMon),
                              !.i = 0,
                              !.decisions = 0,
                              !.steps = <<>>,
                              !.completed = FALSE,
                              !.finalSeen = FALSE,
                              !.spentAtStart = agent.monSpent,
                              !.purchased = agent.memoryFile,
                              !.saved = FALSE,
                              !.registryOpen = TRUE,
                              !.last = NoTool]
    /\ UNCHANGED <<vsVars, regVars, embedder, summaryStore, lastCall, lastOut,
                   procs, bounties>>

\* One pass of the loop in which the brain gives a final answer.
DecideFinal ==
    /\ agent.pc = "deciding"
    /\ loopGoesOn(agent.i, agent.maxSteps, agent.completed)
    /\ agent' = [agent EXCEPT !.decisions = @ + 1,
                              !.completed = TRUE,
                              !.finalSeen = TRUE,
                              !.steps = Append(@, agent.i + 1),
                              !.last = NoTool]
    /\ UNCHANGED <<vsVars, regVars, embedder, summaryStore, lastCall, lastOut,
                   procs, bounties>>

\* One pass in which the brain gives a thought and no action.
DecideThinking ==
    /\ agent.pc = "deciding"
    /\ loopGoesOn(agent.i, agent.maxSteps, agent.completed)
    /\ agent' = [agent EXCEPT !.decisions = @ + 1,
                              !.i = @ + 1,
                              !.last = NoTool]
    /\ UNCHANGED <<vsVars, regVars, embedder, summaryStore, lastCall, lastOut,
                   procs, bounties>>

\* One pass in which the brain asks for a tool and the tool runs.
DecideTool(tool, packageId, wallet, pay) ==
    /\ agent.pc = "deciding"
    /\ loopGoesOn(agent.i, agent.maxSteps, agent.completed)
    /\ LET r == executeTool(tool, agent.monSpent, agent.purchased, packages,
                            transactions, packageId, agent.budgetMon, wallet, pay)
       IN  /\ packages' = r.packages
           /\ transactions' = r.transactions
           /\ agent' = [agent EXCEPT
                   !.decisions = @ + 1,
                   !.i = @ + 1,
                   !.steps = Append(@, agent.i + 1),
                   !.monSpent = r.monSpent,
                   !.purchased = r.purchased,
                   !.last = [tool |-> tool, packageId |-> packageId,
                             success |-> r.success, why |-> r.why,
                             paid |-> r.paid, txHash |-> r.txHash]]
    /\ UNCHANGED <<vsVars, now, tieBreak, embedder, summaryStore, lastCall, lastOut,
                   procs, bounties>>

\* brain.decide rejects: runTask rejects, past saveMemory and registry.close.
DecideThrows ==
    /\ agent.pc = "deciding"
    /\ loopGoesOn(agent.i, agent.maxSteps, agent.completed)
    /\ agent' = [agent EXCEPT !.decisions = @ + 1, !.pc = "failed", !.last = NoTool]
    /\ UNCHANGED <<vsVars, regVars, embedder, summaryStore, lastCall, lastOut,
                   procs, bounties>>

\* After the loop: saveMemory, registry.close, and the result is returned.
Return ==
    /\ agent.pc = "deciding"
    /\ ~loopGoesOn(agent.i, agent.maxSteps, agent.completed)
    /\ agent' = [agent EXCEPT !.pc = "done",
                              !.memoryFile = agent.purchased,
                              !.saved = TRUE,
                              !.registryOpen = FALSE]
    /\ UNCHANGED <<vsVars, regVars, embedder, summaryStore, lastCall, lastOut,
                   procs, bounties>>

(***************************************************************************)
(* POST /api/packages/:id/buy.  Each request makes its own                 *)
(* MarketplaceRegistry: init reads the database file into a database in    *)
(* memory, and persist writes that whole database back over the file.      *)
(* packages and transactions are the file; a request holds its copy.       *)
(***************************************************************************)
\* A request between its start and the end of init's await.
BuyRequest(packageId) ==
    [pc |-> "init", packageId |-> packageId, packages |-> <<>>,
     transactions |-> <<>>, status |-> 0, recorded |-> FALSE, txHash |-> <<>>]

\* The handler is entered: new MarketplaceRegistry(), then await init().
BuyBegin(p, packageId) ==
    /\ procs[p].pc = "idle"
    /\ procs' = [procs EXCEPT ![p] = BuyRequest(packageId)]
    /\ UNCHANGED <<regVars, embedder, summaryStore, file, lastCall, lastOut, vsOnly,
                 agent, bounties>>

\* From the read of the file in init to the next await or to the response:
\* 404 and 400 close the registry, which persists what was read; a package
\* without a payment to make has its sale recorded at once.
BuyLoad(p, wallet) ==
    /\ procs[p].pc = "init"
    /\ LET id == procs[p].packageId
           req == [procs[p] EXCEPT !.packages = packages,
                                   !.transactions = transactions]
       IN  IF getPackage(packages, id) = <<>>
           THEN /\ procs' = [procs EXCEPT ![p] = [req EXCEPT !.pc = "done",
                                                             !.status = 404]]
                /\ UNCHANGED <<packages, transactions>>
           ELSE IF ~wallet
           THEN /\ procs' = [procs EXCEPT ![p] = [req EXCEPT !.pc = "done",
                                                             !.status = 400]]
                /\ UNCHANGED <<packages, transactions>>
           ELSE IF HasCreator(id) /\ PriceOf(id) > 0
           THEN /\ procs' = [procs EXCEPT ![p] = [req EXCEPT !.pc = "paying"]]
                /\ UNCHANGED <<packages, transactions>>
           ELSE /\ packages' = recordSalePackages(packages, id)
                /\ transactions' = recordSaleTransactions(transactions, id)
                /\ procs' = [procs EXCEPT ![p] =
                        [req EXCEPT !.pc = "done", !.status = 200,
                                    !.packages = packages',
                                    !.transactions = transactions',
                                    !.recorded = TRUE, !.txHash = <<"local">>]]
    /\ UNCHANGED <<now, tieBreak, embedder, summaryStore, file, lastCall, lastOut,
                 vsOnly, agent, bounties>>

\* sendPayment settles: recordSale on the request's database, which persist
\* and close write over the file.
BuyPaid(p, pay) ==
    /\ procs[p].pc = "paying"
    /\ packages' = recordSalePackages(procs[p].packages, procs[p].packageId)
    /\ transactions' = recordSaleTransactions(procs[p].transactions,
                                              procs[p].packageId)
    /\ procs' = [procs EXCEPT ![p] =
            [@ EXCEPT !.pc = "done", !.status = 200,
                      !.packages = packages', !.transactions = transactions',
                      !.recorded = TRUE,
                      !.txHash = IF pay = "ok" THEN <<"chain">>
                                 ELSE <<"local-fallback">>]]
    /\ UNCHANGED <<now, tieBreak, embedder, summaryStore, file, lastCall, lastOut,
                 vsOnly, agent, bounties>>

(***************************************************************************)
(* SpecKeyword: the registry and keywordSearch.                            *)
(***************************************************************************)
KeywordNext ==
    \/ \E id \in PkgIds, dt \in 0..1 : ListPackage(id, TextOf(id), dt)
    \/ \E id \in PkgIds : RecordSale(id)
    \/ \E id \in PkgIds : DeletePackage(id)
    \/ \E q \in Queries : KeywordSearch(q)

KeywordInit == MktInit /\ VSIdle

SpecKeyword == KeywordInit /\ [][KeywordNext]_vars

(***************************************************************************)
(* SpecManyListings: a registry that grows to ManyListings packages, all   *)
(* of which match the query "ts".                                          *)
(***************************************************************************)
ManyListings == 22

ListNextPackage(dt) ==
    /\ Len(packages) < ManyListings
    /\ ListPackage(Len(packages) + 1, {"ts"}, dt)

ManyNext ==
    \/ \E dt \in 0..1 : ListNextPackage(dt)
    \/ \E q \in {"ts", "py"} : KeywordSearch(q)

SpecManyListings == KeywordInit /\ [][ManyNext]_vars

(***************************************************************************)
(* SpecSearch: listings come and go, summaries are indexed, engines are    *)
(* created anew, and search runs over what is there.                       *)
(***************************************************************************)
SearchQueries == {"ts", "py"}

SearchNext ==
    \/ \E id \in PkgIds : ListPackage(id, TextOf(id), 0)
    \/ \E id \in PkgIds : DeletePackage(id)
    \/ NewEngine
    \/ LoadSummaryIndex
    \/ \E id \in PkgIds, e \in SummaryEmbeddings : IndexPackageSummary(id, e)
    \/ \E q \in SearchQueries, e \in QueryEmbeddings, k \in 0..MaxLimit :
           Search(q, e, k)

\* The order of tied rows is SpecKeyword's subject; here it is the rowid order.
SearchInit == MktInit /\ VSIdle /\ tieBreak = "rowid"

SpecSearch == SearchInit /\ [][SearchNext]_vars

(***************************************************************************)
(* SpecSemantic: as SpecSearch, with semanticSearch called on its own.     *)
(***************************************************************************)
SemanticNext ==
    \/ \E id \in PkgIds : ListPackage(id, TextOf(id), 0)
    \/ \E id \in PkgIds : DeletePackage(id)
    \/ NewEngine
    \/ LoadSummaryIndex
    \/ \E id \in PkgIds, e \in SummaryEmbeddings : IndexPackageSummary(id, e)
    \/ \E e \in QueryEmbeddings, k \in 0..MaxLimit : SemanticSearch(e, k)

SpecSemantic == SearchInit /\ [][SemanticNext]_vars

(***************************************************************************)
(* SpecSell: packages are sold and deleted and keywordSearch runs; the     *)
(* index file is absent or unreadable at the start.                        *)
(***************************************************************************)
SellInit ==
    /\ packages = <<>>
    /\ transactions = <<>>
    /\ now = 0
    /\ tieBreak \in TieBreaks
    /\ embedder = FALSE
    /\ summaryStore = <<>>
    /\ file \in {<<>>, <<Unreadable>>}
    /\ lastCall = Call("init")
    /\ lastOut = Out(TRUE, Null)
    /\ procs = NoProcs
    /\ agent = NoAgent
    /\ bounties = <<>>
    /\ VSIdle

SellNext ==
    \/ \E id \in PkgIds, hasSummary \in BOOLEAN, e \in SummaryEmbeddings :
           Sell(id, hasSummary, e)
    \/ \E id \in PkgIds : DeletePackage(id)
    \/ \E q \in Queries : KeywordSearch(q)

SpecSell == SellInit /\ [][SellNext]_vars

(***************************************************************************)
(* SpecRace: processes index package summaries side by side, each with its *)
(* own engine, over one index file; any interleaving of their steps.       *)
(***************************************************************************)
RaceNext ==
    \/ \E p \in ProcIds, id \in PkgIds : ProcIndexBegin(p, id)
    \/ \E p \in ProcIds, e \in SummaryEmbeddings : ProcIndexEnd(p, e)
    \/ ProcsExit

RaceInit == MktInit /\ VSIdle /\ tieBreak = "rowid"

SpecRace == RaceInit /\ [][RaceNext]_vars

(***************************************************************************)
(* SpecSales: packages are listed, re-listed, sold and deleted, and the     *)
(* sales of a package are read back.                                       *)
(***************************************************************************)
SalesNext ==
    \/ \E id \in PkgIds, dt \in 0..1 : ListPackage(id, TextOf(id), dt)
    \/ \E id \in PkgIds : RecordSaleListed(id)
    \/ \E id \in PkgIds : DeletePackage(id)
    \/ \E id \in PkgIds : GetSales(id)

SalesInit == MktInit /\ VSIdle /\ tieBreak = "rowid"

SpecSales == SalesInit /\ [][SalesNext]_vars

(***************************************************************************)
(* SpecCalls: one engine, two indexPackageSummary calls in flight at once, *)
(* interleaved at their await in every order.                              *)
(***************************************************************************)
CallsNext ==
    \/ \E c \in ProcIds, id \in PkgIds : CallIndexBegin(c, id)
    \/ \E c \in ProcIds, e \in SummaryEmbeddings : CallIndexEnd(c, e)
    \/ CallsReturn
    \/ CallsNewEngine

CallsInit == MktInit /\ VSIdle /\ tieBreak = "rowid"

SpecCalls == CallsInit /\ [][CallsNext]_vars

(***************************************************************************)
(* SpecBounty: bounties are posted, fulfilled and listed.                  *)
(***************************************************************************)
BountyNext ==
    \/ \E dt \in 0..1, rewardMon \in {1, 2} : PostBounty(dt, rewardMon)
    \/ \E id \in 0..(MaxTime + 1), who \in {"alice", "bob"} : FulfillBounty(id, who)
    \/ GetOpenBounties

BountyInit == MktInit /\ VSIdle

SpecBounty == BountyInit /\ [][BountyNext]_vars

(***************************************************************************)
(* SpecAgent: agents run tasks of a few steps over a registry of three     *)
(* packages and buy them; a fourth id is not listed.                       *)
(***************************************************************************)
MaxSteps == 2
MaxAgentSales == 4
BuyIds == PkgIds \cup {4}
Budgets == {<<>>, <<4>>, <<1>>}

AgentInit == MktInit /\ VSIdle /\ tieBreak = "rowid"

AgentList(id) ==
    /\ agent.pc = "none"
    /\ id = Len(packages) + 1
    /\ ListPackage(id, TextOf(id), 0)

AgentBuy(packageId, wallet, pay) ==
    /\ Len(transactions) < MaxAgentSales
    /\ DecideTool("buy_knowledge", packageId, wallet, pay)

AgentStart ==
    /\ Len(packages) = Cardinality(PkgIds)
    /\ NewAgent

AgentNext ==
    \/ \E id \in PkgIds : AgentList(id)
    \/ AgentStart
    \/ \E ms \in 1..MaxSteps, b \in Budgets : RunTask(<<ms>>, b)
    \/ DecideFinal
    \/ DecideThinking
    \/ \E id \in BuyIds, wallet \in BOOLEAN, pay \in {"ok", "fail"} :
           AgentBuy(id, wallet, pay)
    \/ DecideTool("list_marketplace", 0, TRUE, "ok")
    \/ DecideThrows
    \/ Return

SpecAgent == AgentInit /\ [][AgentNext]_vars

(***************************************************************************)
(* SpecRun: runTask with the default and with small maxSteps, the brain     *)
(* asking for tools that only read.                                        *)
(***************************************************************************)
RunNext ==
    \/ NewAgent
    \/ \E ms \in {<<>>, <<0>>, <<1>>, <<2>>} : RunTask(ms, <<>>)
    \/ DecideFinal
    \/ DecideThinking
    \/ \E tool \in {"list_marketplace", "no_such_tool"} :
           DecideTool(tool, 0, TRUE, "ok")
    \/ DecideThrows
    \/ Return

RunInit == MktInit /\ VSIdle /\ tieBreak = "rowid"

\* A pass of the loop or the code after it: every await of runTask settles.
TaskStep ==
    \/ DecideFinal
    \/ DecideThinking
    \/ \E tool \in {"list_marketplace", "no_such_tool"} :
           DecideTool(tool, 0, TRUE, "ok")
    \/ DecideThrows
    \/ Return

SpecRunFair == RunInit /\ [][RunNext]_vars /\ WF_vars(TaskStep)

(***************************************************************************)
(* SpecBuy: the packages are listed, then two buy requests run, each step  *)
(* of one between the awaits of the other.                                 *)
(***************************************************************************)
BuyList(id) ==
    /\ \A p \in ProcIds : procs[p].pc = "idle"
    /\ AgentList(id)

BuyNext ==
    \/ \E id \in PkgIds : BuyList(id)
    \/ \E p \in ProcIds, id \in BuyIds : BuyBegin(p, id)
    \/ \E p \in ProcIds, wallet \in BOOLEAN : BuyLoad(p, wallet)
    \/ \E p \in ProcIds, pay \in {"ok", "fail"} : BuyPaid(p, pay)

BuyInit == MktInit /\ VSIdle /\ tieBreak = "rowid"

SpecBuy == BuyInit /\ [][BuyNext]_vars

(***************************************************************************)
(* Claims about keywordSearch and the fusion.                              *)
(***************************************************************************)
\* out is what keywordSearch owes for the query q on the packages table.
KeywordListOk(out, q) ==
    LET found == {i \in 1..Len(packages) : Matches(packages[i], q)}
    IN  /\ Len(out) = Cardinality(found)
        /\ \A i \in found : \E j \in 1..Len(out) : out[j].listing = packages[i]
        /\ \A i, j \in 1..Len(out) :
               i < j =>
                   \/ out[i].listing.timesSold > out[j].listing.timesSold
                   \/ /\ out[i].listing.timesSold = out[j].listing.timesSold
                      /\ out[i].listing.createdAt >= out[j].listing.createdAt
        /\ \A i \in 1..Len(out) :
               /\ out[i].matchType = "keyword"
               /\ out[i].score = 1000 - 50 * (i - 1)
        /\ \A i \in 1..(Len(out) - 1) : out[i].score > out[i + 1].score

\* C8: keywordSearch returns exactly the matching listings, ordered by sold count
\* descending and then by creation time descending, each tagged "keyword", the
\* result at zero-based rank i with score 1.0 - 0.05 * i, so that scores strictly
\* decrease with rank.
C8_KeywordOrderAndScore ==
    /\ \A q \in Queries : KeywordListOk(keywordSearch(packages, q, tieBreak), q)
    /\ lastCall.op = "keywordSearch" => KeywordListOk(lastOut.out, lastCall.query)

\* Three results whose order is not the row order: the first leads on sold count,
\* the second beats the third on creation time.
C8_Witness ==
    /\ lastCall.op = "keywordSearch"
    /\ Len(lastOut.out) = 3
    /\ lastOut.out[1].listing.timesSold > lastOut.out[2].listing.timesSold
    /\ lastOut.out[2].listing.timesSold = lastOut.out[3].listing.timesSold
    /\ lastOut.out[2].listing.createdAt > lastOut.out[3].listing.createdAt
    /\ lastOut.out[1].listing # packages[1]
    /\ lastOut.out[3].score = 900

\* C9: every result of keywordSearch has a score in (0, 1], however long the
\* result list is.
C9_KeywordScoreInUnitRange ==
    lastCall.op = "keywordSearch" =>
        \A i \in 1..Len(lastOut.out) :
            /\ lastOut.out[i].score > 0
            /\ lastOut.out[i].score <= 1000

\* The score a list of results gives the listing id: 0 when the listing is absent.
ScoreIn(list, id) ==
    IF \E i \in 1..Len(list) : list[i].listing.id = id
    THEN list[CHOOSE i \in 1..Len(list) : list[i].listing.id = id].score
    ELSE 0

\* C10: when search fuses the two legs (the semantic leg is not empty), every
\* listing of the output has score 0.4 * ks + 0.6 * ss, ks its keywordSearch score
\* and ss its semanticSearch score, each 0 when the listing is absent from that leg.
C10_FusedScore ==
    lastCall.op = "search" =>
        LET kw == keywordSearch(packages, lastCall.query, tieBreak)
            sem == semanticSearch(embedder, summaryStore, packages,
                                  lastCall.embedded, lastCall.limit)
        IN  (lastOut.ok /\ sem.ok /\ Len(sem.out) > 0) =>
                \A i \in 1..Len(lastOut.out) :
                    1000 * lastOut.out[i].score =
                        400 * ScoreIn(kw, lastOut.out[i].listing.id)
                        + 600 * ScoreIn(sem.out, lastOut.out[i].listing.id)

\* A fused output of two listings: one in both legs, one in the keyword leg only
\* and ranked first there.
C10_Witness ==
    /\ lastCall.op = "search"
    /\ lastOut.ok
    /\ lastOut.fused
    /\ Len(lastOut.out) = 2
    /\ Len(lastOut.sem) = 1
    /\ lastOut.out[1].listing.id = lastOut.sem[1].listing.id
    /\ lastOut.out[1].score = 740
    /\ lastOut.out[2].listing.id = lastOut.kw[1].listing.id
    /\ lastOut.out[2].score = 400

ListingIds(list) == {list[i].listing.id : i \in 1..Len(list)}

\* C11: in a fused output a listing is tagged "combined" when its keyword score
\* and its semantic score are both nonzero, "keyword" when only the keyword score
\* is, "semantic" when only the semantic score is; every listing that is in both
\* the keyword results and the semantic results is tagged "combined".
C11_MatchType ==
    lastCall.op = "search" =>
        LET kw == keywordSearch(packages, lastCall.query, tieBreak)
            sem == semanticSearch(embedder, summaryStore, packages,
                                  lastCall.embedded, lastCall.limit)
        IN  (lastOut.ok /\ sem.ok /\ Len(sem.out) > 0) =>
                \A i \in 1..Len(lastOut.out) :
                    LET id == lastOut.out[i].listing.id
                        ks == ScoreIn(kw, id)
                        ss == ScoreIn(sem.out, id)
                        tag == lastOut.out[i].matchType
                    IN  /\ (ks # 0 /\ ss # 0) => tag = "combined"
                        /\ (ks # 0 /\ ss = 0) => tag = "keyword"
                        /\ (ks = 0 /\ ss # 0) => tag = "semantic"
                        /\ (id \in ListingIds(kw) /\ id \in ListingIds(sem.out)) =>
                               tag = "combined"

\* C12: search returns at most limit results and no listing twice; a fused
\* output is in non-increasing order of combined score and holds the
\* highest-scoring members of the union of the keyword and semantic results.
C12_LimitOrderAndTop ==
    (lastCall.op = "search" /\ lastOut.ok) =>
        LET out == lastOut.out
            kw == keywordSearch(packages, lastCall.query, tieBreak)
            sem == semanticSearch(embedder, summaryStore, packages,
                                  lastCall.embedded, lastCall.limit)
            union == ListingIds(kw) \cup ListingIds(sem.out)
        IN  /\ Len(out) <= lastCall.limit
            /\ \A i, j \in 1..Len(out) :
                   out[i].listing.id = out[j].listing.id => i = j
            /\ (sem.ok /\ Len(sem.out) > 0) =>
                   /\ Len(out) = Min(lastCall.limit, Cardinality(union))
                   /\ ListingIds(out) \subseteq union
                   /\ \A i \in 1..(Len(out) - 1) : out[i].score >= out[i + 1].score
                   /\ \A id \in union \ ListingIds(out), i \in 1..Len(out) :
                          400 * ScoreIn(kw, id) + 600 * ScoreIn(sem.out, id)
                              <= 1000 * out[i].score

\* A fused output cut from three listings to two, led by a listing that is not
\* the first keyword result.
C12_Witness ==
    /\ lastCall.op = "search"
    /\ lastOut.ok
    /\ lastOut.fused
    /\ lastCall.limit = 2
    /\ Len(lastOut.out) = 2
    /\ Cardinality(ListingIds(lastOut.kw) \cup ListingIds(lastOut.sem)) = 3
    /\ lastOut.out[1].listing.id # lastOut.kw[1].listing.id
    /\ lastOut.out[1].score > lastOut.out[2].score

\* search runs its semantic leg: an embedder and a non-empty index are there.
LegRuns == embedder /\ summaryStore # <<>> /\ size(summaryStore[1]) > 0

\* C13: when the semantic leg yields nothing (it is not run, or it returns an
\* empty list), search returns keywordSearch(query) cut to limit: the same
\* listings in the same order, the positional scores unweighted, every result
\* tagged "keyword", and no error.
C13_KeywordOnlyWhenNoSemantic ==
    lastCall.op = "search" =>
        LET kw == keywordSearch(packages, lastCall.query, tieBreak)
            sem == semanticSearch(embedder, summaryStore, packages,
                                  lastCall.embedded, lastCall.limit)
        IN  (~LegRuns \/ (sem.ok /\ Len(sem.out) = 0)) =>
                /\ lastOut.ok
                /\ lastOut.out = Slice(kw, lastCall.limit)
                /\ \A i \in 1..Len(lastOut.out) :
                       /\ lastOut.out[i].matchType = "keyword"
                       /\ lastOut.out[i].score = 1000 - 50 * (i - 1)

\* The leg ran over a non-empty index and every neighbour was dropped; two
\* keyword results came back.
C13_Witness ==
    /\ lastCall.op = "search"
    /\ LegRuns
    /\ lastCall.embedded # <<>>
    /\ Len(lastCall.embedded[1]) = summaryStore[1].dimensions
    /\ lastCall.limit = 2
    /\ lastOut.ok
    /\ ~lastOut.fused
    /\ Len(lastOut.out) = 2

\* C18: when an embedder and a non-empty index are there and the provider's
\* embed call fails in the semantic leg, search fails with that error and
\* returns nothing: it does not fall back to the keyword results.
C18_EmbedFailurePropagates ==
    (lastCall.op = "search" /\ LegRuns /\ lastCall.embedded = <<>>) =>
        /\ ~lastOut.ok
        /\ lastOut.err = "EmbedError"
        /\ lastOut.out = <<>>

\* The embed call failed while the keyword leg had found two listings.
C18_Witness ==
    /\ lastCall.op = "search"
    /\ LegRuns
    /\ lastCall.embedded = <<>>
    /\ ~lastOut.ok
    /\ Len(lastOut.kw) = 2
    /\ lastCall.limit = 2

(***************************************************************************)
(* Claims about semanticSearch and the summary index.                      *)
(***************************************************************************)
\* C14: semanticSearch on an engine with no embedder or with no summary index
\* returns the empty list, raises no error and does not call the embedding
\* provider, whatever the provider would have answered.
C14_MissingCapabilityIsEmpty ==
    (lastCall.op = "semanticSearch" /\ (~embedder \/ summaryStore = <<>>)) =>
        /\ lastOut.ok
        /\ lastOut.err = Null
        /\ lastOut.out = <<>>
        /\ lastOut.val = <<FALSE>>

\* An engine with a loaded, non-empty index and no embedder, listings in the
\* registry, and a provider that would have rejected the call.
C14_Witness ==
    /\ lastCall.op = "semanticSearch"
    /\ ~embedder
    /\ summaryStore # <<>>
    /\ size(summaryStore[1]) > 0
    /\ Len(packages) > 0
    /\ lastCall.embedded = <<>>
    /\ lastCall.limit = 2
    /\ lastOut.ok
    /\ lastOut.out = <<>>

\* The neighbour r of the index names a listing of the packages table.
Resolvable(r) ==
    /\ PackageIdOf(r.metadata) # <<>>
    /\ getPackage(packages, PackageIdOf(r.metadata)[1]) # <<>>

\* C15: with an embedder, an index and a query embedding of the index's
\* dimension, semanticSearch returns without error exactly the resolvable ones
\* of the index's top-limit neighbours, in their order and with their scores:
\* non-increasing similarity, every listing present in the packages table, at
\* most limit results.
C15_ResolvableNeighbours ==
    (/\ lastCall.op = "semanticSearch"
     /\ embedder
     /\ summaryStore # <<>>
     /\ lastCall.embedded # <<>>
     /\ Len(lastCall.embedded[1]) = summaryStore[1].dimensions) =>
        LET neighbours == query(summaryStore[1], lastCall.embedded[1],
                                lastCall.limit).out
            keep == SelectSeq(neighbours, Resolvable)
            out == lastOut.out
        IN  /\ lastOut.ok
            /\ Len(neighbours) = Min(lastCall.limit, size(summaryStore[1]))
            /\ Len(out) = Len(keep)
            /\ Len(out) <= lastCall.limit
            /\ \A i \in 1..Len(out) :
                   /\ out[i].listing.id = PackageIdOf(keep[i].metadata)[1]
                   /\ <<out[i].listing>> = getPackage(packages, out[i].listing.id)
                   /\ out[i].score = keep[i].score
                   /\ out[i].matchType = "semantic"
            /\ \A i \in 1..(Len(out) - 1) : out[i].score >= out[i + 1].score

\* Two neighbours asked for and found, the nearer one has no listing any more and
\* a third indexed package, beyond the top two, still has one: one result.
C15_Witness ==
    /\ lastCall.op = "semanticSearch"
    /\ embedder
    /\ summaryStore # <<>>
    /\ size(summaryStore[1]) = 3
    /\ lastCall.embedded # <<>>
    /\ Len(lastCall.embedded[1]) = summaryStore[1].dimensions
    /\ lastCall.limit = 2
    /\ lastOut.ok
    /\ Len(lastOut.out) = 1
    /\ LET neighbours == query(summaryStore[1], lastCall.embedded[1], 3).out
       IN  /\ ~Resolvable(neighbours[1])
           /\ Resolvable(neighbours[2])
           /\ Resolvable(neighbours[3])

\* C16: on an engine on which loadSummaryIndex has loaded a non-empty index and
\* indexPackageSummary was never called, search runs the semantic leg: it gets
\* the resolvable neighbours of the query embedding and, when there are any,
\* fuses them with the keyword results.
C16_LoadedIndexIsSearched ==
    (/\ lastCall.op = "search"
     /\ ~embedder
     /\ summaryStore # <<>>
     /\ size(summaryStore[1]) > 0
     /\ lastCall.embedded # <<>>
     /\ Len(lastCall.embedded[1]) = summaryStore[1].dimensions) =>
        LET neighbours == query(summaryStore[1], lastCall.embedded[1],
                                lastCall.limit).out
            keep == SelectSeq(neighbours, Resolvable)
        IN  /\ lastOut.ok
            /\ Len(lastOut.sem) = Len(keep)
            /\ Len(keep) > 0 => lastOut.fused

EntriesOf(s) == {s.entries[i] : i \in 1..Len(s.entries)}

\* What the engine holds, or is about to load, when indexPackageSummary starts.
HeldEntries ==
    IF summaryStore # <<>>
    THEN EntriesOf(summaryStore[1])
    ELSE IF file # <<>> THEN EntriesOf(file[1]) ELSE {}

\* C17: a successful indexPackageSummary(packageId, text) leaves in the engine's
\* index one entry keyed packageId, with the embedding of the text and metadata
\* {packageId}; every entry the engine held, or found in the index file it loaded
\* in this call, under another id is still there; and the index file equals the
\* index in memory.  Between such calls the engine's index loses no entry and
\* stays equal to the file.
C17_IndexAddsKeepsAndPersists ==
    [][/\ (lastCall'.op = "indexPackageSummary" /\ lastOut'.ok) =>
              LET id == lastCall'.id
                  mine == {e \in EntriesOf(summaryStore'[1]) : e.id = id}
              IN  /\ embedder'
                  /\ mine = {[id |-> id, embedding |-> lastCall'.embedded[1],
                              metadata |-> {<<"packageId", id>>}]}
                  /\ \A e \in HeldEntries :
                         e.id # id => e \in EntriesOf(summaryStore'[1])
                  /\ EntriesOf(summaryStore'[1]) \ mine \subseteq HeldEntries
                  /\ file' = <<save(summaryStore'[1])>>
                  /\ load(NewStore(ProviderDims), file'[1]) = summaryStore'[1]
       /\ (lastCall'.op \notin {"indexPackageSummary", "new"}
               /\ summaryStore # <<>>) =>
              /\ summaryStore' # <<>>
              /\ EntriesOf(summaryStore[1]) \subseteq EntriesOf(summaryStore'[1])
       /\ (lastCall'.op = "indexPackageSummary" /\ ~lastOut'.ok) =>
              /\ file' = file
              /\ EntriesOf(summaryStore'[1]) = HeldEntries
      ]_vars

\* A new engine indexed package 3 over an index file that held packages 1 and 2:
\* the call loaded the file, and memory and file hold all three.
C17_Witness ==
    /\ lastCall.op = "indexPackageSummary"
    /\ lastCall.id = 3
    /\ lastOut.ok
    /\ lastOut.val = <<TRUE>>
    /\ size(summaryStore[1]) = 3
    /\ file = <<save(summaryStore[1])>>

\* C19: the sell flow reports success and leaves the package registered and
\* found by keywordSearch (for the empty query and for every word of its text),
\* also when indexPackageSummary fails in it: the provider rejects the embed
\* call, the embedding has the wrong dimension, or the index file is unreadable;
\* in those cases the package is not indexed.
C19_SellSurvivesIndexFailure ==
    lastCall.op = "sell" =>
        LET id == lastCall.id
            indexFails == \/ file = <<Unreadable>>
                          \/ lastCall.embedded = <<>>
                          \/ Len(lastCall.embedded[1]) # ProviderDims
        IN  /\ lastOut.ok
            /\ getPackage(packages, id) # <<>>
            /\ \A q \in TextOf(id) \cup {""} :
                   id \in ListingIds(keywordSearch(packages, q, tieBreak))
            /\ (lastOut.val[1] /\ indexFails) => ~lastOut.val[2]
            /\ (lastOut.val[1] /\ ~indexFails) =>
                   /\ lastOut.val[2]
                   /\ has(file[1], id)

\* A package with a summary was sold while the provider rejected the embed call
\* and no index file was written; another package was already registered.
C19_Witness ==
    /\ lastCall.op = "sell"
    /\ lastOut.val = <<TRUE, FALSE>>
    /\ lastCall.embedded = <<>>
    /\ file = <<>>
    /\ lastOut.ok
    /\ Len(packages) = 2
    /\ getPackage(packages, lastCall.id) # <<>>

\* What a new engine holds after reading the index file f.
StoreFrom(f) ==
    IF f = <<>> THEN NewStore(ProviderDims) ELSE load(NewStore(ProviderDims), f[1])

\* C20: when two processes index different package ids, both read the index
\* file before either saves, and both save, the file is in the end the index
\* the last writer holds in memory, which is the file as read plus the last
\* writer's own entry: nothing is merged, so the earlier writer's new entry is
\* not in the file (its id has the entry the file had at the start, or none).
C20_LastWriterWinsNoMerge ==
    \A p, q \in ProcIds :
        (/\ p # q
         /\ procs[p].pc = "done" /\ procs[q].pc = "done"
         /\ procs[p].ok /\ procs[q].ok
         /\ procs[p].early /\ procs[q].early
         /\ procs[p].packageId # procs[q].packageId
         /\ procs[p].wrote < procs[q].wrote) =>
            /\ procs[p].loaded = procs[q].loaded
            /\ file = <<save(procs[q].summaryStore[1])>>
            /\ procs[q].summaryStore[1] =
                   add(StoreFrom(procs[q].loaded), procs[q].packageId,
                       procs[q].embedded[1],
                       {<<"packageId", procs[q].packageId>>}).store
            /\ get(file[1], procs[p].packageId) =
                   get(StoreFrom(procs[q].loaded), procs[p].packageId)
            /\ ~has(StoreFrom(procs[p].loaded), procs[p].packageId) =>
                   ~has(file[1], procs[p].packageId)
            /\ has(procs[p].summaryStore[1], procs[p].packageId)

\* Over a file that held package 3, process 1 indexed package 1 and process 2
\* package 2, both having read the file first; process 2 saved last and the
\* file holds packages 3 and 2 only.
C20_Witness ==
    /\ procs[1].pc = "done" /\ procs[2].pc = "done"
    /\ procs[1].ok /\ procs[2].ok
    /\ procs[1].early /\ procs[2].early
    /\ procs[1].packageId = 1 /\ procs[2].packageId = 2
    /\ procs[1].wrote = 1 /\ procs[2].wrote = 2
    /\ procs[1].loaded # <<>>
    /\ IdsOf(procs[1].loaded[1].entries) = {3}
    /\ file # <<>>
    /\ IdsOf(file[1].entries) = {3, 2}

\* C21: on one engine, when two indexPackageSummary calls for different package
\* ids have both returned without error, however they were interleaved at the
\* await of embedOne, the engine's index holds both entries, each with the
\* embedding its call was given, and the index file equals the index.
C21_CallsOnOneEngineKeepBoth ==
    \A c, d \in ProcIds :
        (/\ c # d
         /\ procs[c].pc = "done" /\ procs[d].pc = "done"
         /\ procs[c].ok /\ procs[d].ok
         /\ procs[c].packageId # procs[d].packageId) =>
            /\ summaryStore # <<>>
            /\ get(summaryStore[1], procs[c].packageId) =
                   <<[id |-> procs[c].packageId,
                      embedding |-> procs[c].embedded[1],
                      metadata |-> {<<"packageId", procs[c].packageId>>}]>>
            /\ file = <<save(summaryStore[1])>>
            /\ has(file[1], procs[c].packageId)
            /\ has(file[1], procs[d].packageId)

\* Both calls reached the await before either resumed; call 2 resumed first.
C21_Witness ==
    /\ procs[1].pc = "done" /\ procs[2].pc = "done"
    /\ procs[1].ok /\ procs[2].ok
    /\ procs[1].early /\ procs[2].early
    /\ procs[1].packageId = 1 /\ procs[2].packageId = 2
    /\ procs[2].wrote = 1 /\ procs[1].wrote = 2
    /\ file # <<>>
    /\ IdsOf(file[1].entries) = {1, 2}

(***************************************************************************)
(* Claims about the sales of the registry.                                 *)
(***************************************************************************)
SalesOf(txs, packageId) == {i \in 1..Len(txs) : txs[i].packageId = packageId}

\* C22: recordSale on a listed package adds exactly one sale record, for that
\* package and with the next transaction id, and raises that package's
\* timesSold by exactly 1 while every other row stays as it was; getSales
\* returns exactly the package's sale records, the most recent (highest id)
\* first.
C22_RecordSaleAndGetSales ==
    [][/\ (lastCall'.op = "recordSale" /\ getPackage(packages, lastCall'.id) # <<>>) =>
              /\ Len(transactions') = Len(transactions) + 1
              /\ SubSeq(transactions', 1, Len(transactions)) = transactions
              /\ transactions'[Len(transactions')].packageId = lastCall'.id
              /\ \A i \in 1..Len(transactions) :
                     transactions[i].id < transactions'[Len(transactions')].id
              /\ Len(packages') = Len(packages)
              /\ \A i \in 1..Len(packages) :
                     IF packages[i].id = lastCall'.id
                     THEN packages'[i] =
                              [packages[i] EXCEPT !.timesSold = packages[i].timesSold + 1]
                     ELSE packages'[i] = packages[i]
       /\ lastCall'.op = "getSales" =>
              LET out == lastOut'.out
              IN  /\ Len(out) = Cardinality(SalesOf(transactions, lastCall'.id))
                  /\ \A i \in 1..Len(out) :
                         /\ out[i].packageId = lastCall'.id
                         /\ \E j \in 1..Len(transactions) : transactions[j] = out[i]
                  /\ \A i \in 1..(Len(out) - 1) : out[i].id > out[i + 1].id
      ]_vars

\* Two sales of one package read back, the later one first, while another
\* package is listed and unsold.
C22_Witness ==
    /\ lastCall.op = "getSales"
    /\ Len(lastOut.out) = 2
    /\ lastOut.out[1].id = 2
    /\ getPackage(packages, lastCall.id) # <<>>
    /\ getPackage(packages, lastCall.id)[1].timesSold = 2
    /\ \E i \in 1..Len(packages) :
           packages[i].id # lastCall.id /\ packages[i].timesSold = 0

\* C27: after any sequence of listPackage, recordSale (on listed ids) and
\* deletePackage, every listed package's timesSold is the number of sale
\* records stored for its id; in particular listing an id again keeps its
\* timesSold.
C27_TimesSoldCountsSales ==
    \A i \in 1..Len(packages) :
        packages[i].timesSold =
            Cardinality(SalesOf(transactions, packages[i].id))

(***************************************************************************)
(* Claims about addBatch.                                                  *)
(***************************************************************************)
\* The position of the first item of the batch whose embedding has not the
\* length d, or Len(items) + 1 when there is none.
FirstBad(items, d) ==
    IF \E i \in 1..Len(items) : Len(items[i].embedding) # d
    THEN CHOOSE i \in 1..Len(items) :
             /\ Len(items[i].embedding) # d
             /\ \A j \in 1..(i - 1) : Len(items[j].embedding) = d
    ELSE Len(items) + 1

\* C24: addBatch fails with a dimension mismatch exactly when some item has an
\* embedding of the wrong length.  With k the position of the first such item,
\* the items before k are applied in sequence (an id written twice holds its
\* last item before k, an id new to the store goes behind the ones there) and
\* no item at k or later is: every id not written before k is as it was.
C24_AddBatchPartialWithError ==
    [][lastOp'.op = "addBatch" =>
           LET items == lastOp'.items
               k == FirstBad(items, store.dimensions)
               written == {items[i].id : i \in 1..(k - 1)}
           IN  /\ lastRes'.ok = (k = Len(items) + 1)
               /\ ~lastRes'.ok => lastRes'.err = "DimensionMismatch"
               /\ store'.dimensions = store.dimensions
               /\ IdsOf(store'.entries) = IdsOf(store.entries) \cup written
               /\ \A id \in written :
                      LET last == CHOOSE i \in 1..(k - 1) :
                                      /\ items[i].id = id
                                      /\ \A j \in (i + 1)..(k - 1) : items[j].id # id
                      IN  get(store', id) = <<items[last]>>
               /\ \A id \in IdsOf(store.entries) \ written :
                      get(store', id) = get(store, id)
               /\ \A i \in 1..Len(store.entries) :
                      store'.entries[i].id = store.entries[i].id
      ]_vars

\* A batch of three on a store of dimension 2: the same id twice with different
\* embeddings, then an item of length 1; the call failed and the store holds
\* the second item only.
C24_Witness ==
    /\ lastOp.op = "addBatch"
    /\ Len(lastOp.items) = 3
    /\ lastOp.items[1].id = lastOp.items[2].id
    /\ lastOp.items[1].embedding # lastOp.items[2].embedding
    /\ lastOp.items[3].id # lastOp.items[1].id
    /\ Len(lastOp.items[3].embedding) # store.dimensions
    /\ ~lastRes.ok
    /\ store.entries = <<lastOp.items[2]>>

(***************************************************************************)
(* Claims about a failing indexPackageSummary.                             *)
(***************************************************************************)
\* The index the engine holds, or is about to load, when indexPackageSummary
\* starts.
HeldStore ==
    IF summaryStore # <<>>
    THEN summaryStore[1]
    ELSE IF file # <<>> THEN load(NewStore(ProviderDims), file[1])
         ELSE NewStore(ProviderDims)

\* C26: when the embed call of indexPackageSummary is rejected, or the embedding
\* has not the dimension of the index held or loaded from the file, the call
\* fails, the index file is as it was before the call (absent when it was absent)
\* and the engine's index is the one it held or loaded, with no entry added or
\* changed.
C26_FailedIndexLeavesFileAndIndex ==
    [][(/\ lastCall'.op = "indexPackageSummary"
        /\ \/ lastCall'.embedded = <<>>
           \/ Len(lastCall'.embedded[1]) # HeldStore.dimensions) =>
           /\ ~lastOut'.ok
           /\ file' = file
           /\ summaryStore' = <<HeldStore>>
           /\ get(summaryStore'[1], lastCall'.id) = get(HeldStore, lastCall'.id)
      ]_vars

\* A new engine loaded an index file of two entries in the call, the embedding
\* had the wrong dimension, and package 3 is in neither the index nor the file.
C26_Witness ==
    /\ lastCall.op = "indexPackageSummary"
    /\ lastCall.id = 3
    /\ lastCall.embedded = <<<<1>>>>
    /\ ~lastOut.ok
    /\ lastOut.err = "DimensionMismatch"
    /\ lastOut.val = <<TRUE>>
    /\ size(summaryStore[1]) = 2
    /\ file = <<save(summaryStore[1])>>
    /\ ~has(summaryStore[1], 3)


(***************************************************************************)
(* Claims about the agent.                                                 *)
(***************************************************************************)
\* The step is a buy_knowledge call of the running task.
BuyStep ==
    /\ agent.pc = "deciding"
    /\ agent'.decisions = agent.decisions + 1
    /\ agent'.last.tool = "buy_knowledge"

BuyLeavesNothing ==
    /\ transactions' = transactions
    /\ packages' = packages
    /\ agent'.monSpent = agent.monSpent
    /\ agent'.purchased = agent.purchased

\* C23: buy_knowledge rejects a purchase whose price would bring monSpent
\* above the task's budgetMon, recording no sale and leaving monSpent as it
\* was; what a task has spent never exceeds its budgetMon; and a buy of a
\* package already in the purchased list succeeds without a sale, a charge or
\* a second entry in the list.
C23_BudgetAndOwned ==
    [][ /\ agent'.monSpent - agent'.spentAtStart <= agent'.budgetMon
        /\ BuyStep =>
             LET id == agent'.last.packageId
             IN  /\ ( /\ id \notin SeqIds(agent.purchased)
                      /\ getPackage(packages, id) # <<>>
                      /\ agent.monSpent + PriceOf(id) > agent.budgetMon )
                      => (~agent'.last.success /\ BuyLeavesNothing)
                 /\ id \in SeqIds(agent.purchased)
                      => (agent'.last.success /\ BuyLeavesNothing)
                 /\ Len(agent'.purchased) = Cardinality(SeqIds(agent'.purchased))
      ]_vars

\* A task that has bought something is refused a purchase over its budget.
C23_Witness ==
    /\ agent.last.tool = "buy_knowledge"
    /\ agent.last.why = "budget"
    /\ agent.monSpent - agent.spentAtStart > 0
    /\ agent.monSpent + PriceOf(agent.last.packageId) > agent.budgetMon


\* C29: for a package with a price above 0 and a creator or token address,
\* buy_knowledge records a sale, adds the purchase to memory and raises
\* monSpent only when the payment or token buy succeeded; a failed payment
\* leaves the sales, the memory and monSpent as they were.
C29_SaleOnlyAfterPayment ==
    [][ BuyStep =>
          LET id == agent'.last.packageId
          IN  ( /\ PriceOf(id) > 0
                /\ (HasCreator(id) \/ HasToken(id)) )
              => /\ ~BuyLeavesNothing => agent'.last.paid = "ok"
                 /\ agent'.last.paid = "failed" => BuyLeavesNothing
      ]_vars


StrictlyIncreasing(list) ==
    \A i \in 1..Len(list), j \in 1..Len(list) : i < j => list[i] < list[j]

\* What holds of a task while it runs and when it has returned.
RunTaskBounded ==
    agent.pc \in {"deciding", "done"} =>
        /\ agent.decisions <= agent.maxSteps
        /\ Len(agent.steps) <= agent.maxSteps
        /\ StrictlyIncreasing(agent.steps)
        /\ \A k \in 1..Len(agent.steps) : agent.steps[k] \in 1..agent.maxSteps
        /\ agent.completed <=> agent.finalSeen
        /\ agent.pc = "done" =>
              /\ agent.saved
              /\ agent.memoryFile = agent.purchased
              /\ ~agent.registryOpen
              /\ ~agent.completed => agent.decisions = agent.maxSteps

\* C25: a runTask whose awaits settle comes to an end; it asks the brain at
\* most maxSteps times (10 when not configured); its steps are at most
\* maxSteps, numbered strictly increasing; completed is true exactly when
\* the brain gave a final decision within those passes; and on return, with
\* or without a final decision, the memory is saved and the registry closed.
C25_RunTaskTerminates ==
    /\ []RunTaskBounded
    /\ (agent.pc = "deciding") ~> (agent.pc \in {"done", "failed"})

\* A task with the default maxSteps returns after ten decisions, none final.
C25_Witness ==
    /\ agent.pc = "done"
    /\ ~agent.completed
    /\ agent.maxSteps = DefaultMaxSteps
    /\ agent.decisions = DefaultMaxSteps
    /\ Len(agent.steps) > 1
    /\ Len(agent.steps) < DefaultMaxSteps


(***************************************************************************)
(* Claims about bounties.                                                  *)
(***************************************************************************)
StatusOf(bs, bountyId) ==
    IF bountyId \in BountyIds(bs)
    THEN (CHOOSE b \in {bs[i] : i \in 1..Len(bs)} : b.id = bountyId).status
    ELSE "unknown"

\* C28: fulfillBounty returns true exactly when the call itself moves the
\* bounty from open to fulfilled, after which getOpenBounties no longer has
\* it; on a fulfilled or unknown bounty it returns false; and no call changes
\* the fulfiller or the status of a fulfilled bounty.
C28_FulfillBountyOnce ==
    [][ /\ \A i \in 1..Len(bounties) :
             bounties[i].status = "fulfilled" => bounties'[i] = bounties[i]
        /\ (lastCall'.op = "fulfillBounty" /\ lastCall' # lastCall) =>
             LET id == lastCall'.id
                 moved == /\ StatusOf(bounties, id) = "open"
                          /\ StatusOf(bounties', id) = "fulfilled"
             IN  /\ lastOut'.out = <<moved>>
                 /\ moved => id \notin BountyIds(getOpenBounties(bounties', tieBreak))
      ]_vars


(***************************************************************************)
(* Claims about concurrent buy requests.                                   *)
(***************************************************************************)
RecordedBy(packageId) ==
    {p \in ProcIds : procs[p].recorded /\ procs[p].packageId = packageId}

\* C30: when the two buy requests have completed, the database file holds a
\* sale record for each request that recorded one, and each package's
\* timesSold is the number of requests that recorded a sale of it.
C30_NoSaleLost ==
    (\A p \in ProcIds : procs[p].pc = "done") =>
        /\ Len(transactions) = Cardinality({p \in ProcIds : procs[p].recorded})
        /\ \A i \in 1..Len(packages) :
              /\ packages[i].timesSold = Cardinality(RecordedBy(packages[i].id))
              /\ Cardinality(SalesOf(transactions, packages[i].id)) =
                    Cardinality(RecordedBy(packages[i].id))

=============================================================================
